---- MODULE Spec2Model ----
(***************************************************************************)
(* Label generator (GosGuru/EtiquetasRural): the pasted-table parser, the  *)
(* label list and its handlers, as state machines.                          *)
(*                                                                         *)
(* A JavaScript string is modelled as a sequence of characters, each       *)
(* character a one-character string ("a", "\t", ...) or, for the code      *)
(* points that cannot be typed, its name ("U+200B").                       *)
(*                                                                         *)
(* Three builds of the application are specified here:                     *)
(*   Spec        src/App.tsx:51-434     lenient parser, manual entry,      *)
(*                                      quantity edit, single label file   *)
(*   SpecStrict  src/unnamed/part_000   strict parser, quantity edit,      *)
(*                                      triple label file, split quantity  *)
(*   SpecRaw     src/App.tsx:486-817    strict parser, triple label file   *)
(*                                      of control characters              *)
(* SpecBuilds runs any one of them; SpecSplit is splitDescription alone;   *)
(* SpecMarkers runs the builds on codes and descriptions that carry the    *)
(* markers of the printer commands.                                        *)
(***************************************************************************)
EXTENDS Integers, Sequences, FiniteSets, TLC

VARIABLES
    labels,       \* useState<LabelData[]>: the label list
    error,        \* useState<string | null>: the error message
    success,      \* useState<string | null>: the success message
    now,          \* the value Date.now() returns
    document,     \* the file content the step hands to the browser
    splitCall,    \* a call of splitDescription on its own: arguments, result
    build         \* which build of the application runs

vars == <<labels, error, success, now, document, splitCall, build>>

-----------------------------------------------------------------------------
(* Bounds of the model.                                                    *)

MaxLabels == 2
MaxClock == 1
MaxQuantityDigits == 6

-----------------------------------------------------------------------------
(* Characters.                                                             *)

TAB == "\t"
NL == "\n"
CR == "\r"
SP == " "
ZWSP == "U+200B"
ZWNJ == "U+200C"
ZWJ == "U+200D"
BOM == "U+FEFF"
NBSP == "U+00A0"

\* The characters String.prototype.trim removes: ECMAScript WhiteSpace (the
\* characters of the Unicode category Space_Separator included) and
\* LineTerminator. U+FEFF is WhiteSpace; U+200B..U+200D are not.
WhiteSpaceChars ==
    {" ", "\t", "\n", "\r", "\f", "U+000B", "U+00A0", "U+FEFF", "U+2028", "U+2029",
     "U+1680", "U+2000", "U+2001", "U+2002", "U+2003", "U+2004", "U+2005",
     "U+2006", "U+2007", "U+2008", "U+2009", "U+200A", "U+202F", "U+205F",
     "U+3000"}

\* The character class [U+200B-U+200D, U+FEFF] of sanitizeString.
ZeroWidthChars == {"U+200B", "U+200C", "U+200D", "U+FEFF"}

Digits == {"0", "1", "2", "3", "4", "5", "6", "7", "8", "9"}

DigitValue(c) ==
    CASE c = "0" -> 0 [] c = "1" -> 1 [] c = "2" -> 2 [] c = "3" -> 3
      [] c = "4" -> 4 [] c = "5" -> 5 [] c = "6" -> 6 [] c = "7" -> 7
      [] c = "8" -> 8 [] c = "9" -> 9

-----------------------------------------------------------------------------
(* String operations of the JavaScript runtime the handlers use.           *)

\* String.prototype.trimStart: s from its first character that is not
\* white space.
TrimStart(s) ==
    IF \A k \in 1..Len(s) : s[k] \in WhiteSpaceChars THEN <<>>
    ELSE SubSeq(s, CHOOSE k \in 1..Len(s) :
                       /\ s[k] \notin WhiteSpaceChars
                       /\ \A j \in 1..(k - 1) : s[j] \in WhiteSpaceChars,
                Len(s))

\* String.prototype.trimEnd: s up to its last character that is not white
\* space.
TrimEnd(s) ==
    IF \A k \in 1..Len(s) : s[k] \in WhiteSpaceChars THEN <<>>
    ELSE SubSeq(s, 1, CHOOSE k \in 1..Len(s) :
                          /\ s[k] \notin WhiteSpaceChars
                          /\ \A j \in (k + 1)..Len(s) : s[j] \in WhiteSpaceChars)

\* String.prototype.trim
Trim(s) == TrimEnd(TrimStart(s))

\* Position (1-based) of the first occurrence of character c in s at or
\* after position from, 0 when there is none.
RECURSIVE FindChar(_, _, _)
FindChar(s, c, from) ==
    IF from > Len(s) THEN 0
    ELSE IF s[from] = c THEN from
    ELSE FindChar(s, c, from + 1)

\* String.prototype.split with a one-character separator: always at least
\* one piece ("".split(sep) is [""]).
RECURSIVE Split(_, _)
Split(s, sep) ==
    LET i == FindChar(s, sep, 1)
    IN  IF i = 0 THEN <<s>>
        ELSE <<SubSeq(s, 1, i - 1)>> \o Split(SubSeq(s, i + 1, Len(s)), sep)

\* Array.prototype.indexOf: the 0-based index of the first element equal to
\* x, -1 when there is none.
RECURSIVE IndexFrom(_, _, _)
IndexFrom(arr, x, k) ==
    IF k > Len(arr) THEN -1
    ELSE IF arr[k] = x THEN k - 1
    ELSE IndexFrom(arr, x, k + 1)

indexOf(arr, x) == IndexFrom(arr, x, 1)

\* arr.map(c => c.trim())
MapTrim(arr) == [k \in 1..Len(arr) |-> Trim(arr[k])]

Max3(a, b, c) ==
    IF a >= b /\ a >= c THEN a ELSE IF b >= c THEN b ELSE c

\* The longest prefix of s made of decimal digits.
DigitPrefix(s) ==
    IF \A k \in 1..Len(s) : s[k] \in Digits THEN s
    ELSE SubSeq(s, 1, (CHOOSE k \in 1..Len(s) :
                           /\ s[k] \notin Digits
                           /\ \A j \in 1..(k - 1) : s[j] \in Digits) - 1)

\* The integer that the digits ds write after the digits whose value is acc
\* (digit runs of a few characters: exponents and bounded quantities).
RECURSIVE DigitsValue(_, _)
DigitsValue(ds, acc) ==
    IF ds = <<>> THEN acc
    ELSE DigitsValue(Tail(ds), 10 * acc + DigitValue(Head(ds)))

-----------------------------------------------------------------------------
(* sanitizeString                                                          *)

NotZeroWidth(c) == c \notin ZeroWidthChars

sanitizeString(input) == SelectSeq(input, NotZeroWidth)

-----------------------------------------------------------------------------
(***************************************************************************)
(* Numbers.  A JavaScript number is an IEEE-754 double.  A finite double   *)
(* is written here by the decimal numeral JavaScript prints for it, the    *)
(* shortest one that reads back as the same double: int holds the digits   *)
(* before the point without leading zeros, frac the digits after it        *)
(* without trailing zeros.  The arithmetic on digit sequences is exact;    *)
(* RoundToDouble is the one place where a value is rounded.                *)
(***************************************************************************)

\* The element of a set of one element.
The(S) == CHOOSE v \in S : TRUE

Zeros(n) == [k \in 1..n |-> 0]

LeadingZeros(ds) ==
    IF \A k \in 1..Len(ds) : ds[k] = 0 THEN Len(ds)
    ELSE (CHOOSE k \in 1..Len(ds) :
              ds[k] # 0 /\ \A j \in 1..(k - 1) : ds[j] = 0) - 1

DropLeadingZeros(ds) == SubSeq(ds, LeadingZeros(ds) + 1, Len(ds))

DropTrailingZeros(ds) ==
    IF \A k \in 1..Len(ds) : ds[k] = 0 THEN <<>>
    ELSE SubSeq(ds, 1, CHOOSE k \in 1..Len(ds) :
                           ds[k] # 0 /\ \A j \in (k + 1)..Len(ds) : ds[j] = 0)

Decimal(int, frac) ==
    [int |-> DropLeadingZeros(int), frac |-> DropTrailingZeros(frac)]

\* The digits of x and of y lined up on the point, fl of them after it.
Aligned(x, y) ==
    LET il == IF Len(x.int) >= Len(y.int) THEN Len(x.int) ELSE Len(y.int)
        fl == IF Len(x.frac) >= Len(y.frac) THEN Len(x.frac) ELSE Len(y.frac)
    IN  [a |-> Zeros(il - Len(x.int)) \o x.int \o x.frac \o Zeros(fl - Len(x.frac)),
         b |-> Zeros(il - Len(y.int)) \o y.int \o y.frac \o Zeros(fl - Len(y.frac)),
         fl |-> fl]

\* -1, 0 or 1 as x is below, equal to or above y.
CompareDecimal(x, y) ==
    The({ IF al.a = al.b THEN 0
          ELSE The({ IF al.a[k] < al.b[k] THEN -1 ELSE 1 :
                       k \in {CHOOSE k \in 1..Len(al.a) :
                                 /\ al.a[k] # al.b[k]
                                 /\ \A j \in 1..(k - 1) : al.a[j] = al.b[j]} }) :
            al \in {Aligned(x, y)} })

\* The digits ds with the point before the last fl of them.
PointAt(ds, fl) ==
    Decimal(SubSeq(ds, 1, Len(ds) - fl), SubSeq(ds, Len(ds) - fl + 1, Len(ds)))

\* x + y.  A column takes a carry when a column to its right makes ten or
\* more and every column between makes nine.
AddDecimal(x, y) ==
    The({ LET Carry(i) == \E j \in (i + 1)..Len(al.a) :
                              /\ al.a[j] + al.b[j] >= 10
                              /\ \A k \in (i + 1)..(j - 1) : al.a[k] + al.b[k] = 9
          IN  PointAt([i \in 1..(Len(al.a) + 1) |->
                          IF i = 1 THEN IF Carry(0) THEN 1 ELSE 0
                          ELSE (al.a[i - 1] + al.b[i - 1]
                                    + (IF Carry(i - 1) THEN 1 ELSE 0)) % 10],
                      al.fl) :
            al \in {Aligned(x, y)} })

\* x - y for x >= y.  A column lends when a column to its right is short
\* and every column between is level.
SubDecimal(x, y) ==
    The({ LET Borrow(i) == \E j \in (i + 1)..Len(al.a) :
                               /\ al.a[j] < al.b[j]
                               /\ \A k \in (i + 1)..(j - 1) : al.a[k] = al.b[k]
          IN  PointAt([i \in 1..Len(al.a) |->
                          (10 + al.a[i] - al.b[i] - (IF Borrow(i) THEN 1 ELSE 0)) % 10],
                      al.fl) :
            al \in {Aligned(x, y)} })

\* 2 * x
DoubleDecimal(x) ==
    LET ds == <<0>> \o x.int \o x.frac
        n == Len(ds)
        out == [k \in 1..n |->
                   (2 * ds[k] + (IF k < n /\ ds[k + 1] >= 5 THEN 1 ELSE 0)) % 10]
    IN  PointAt(out, Len(x.frac))

\* x / 2
HalveDecimal(x) ==
    LET ds == x.int \o x.frac \o <<0>>
        n == Len(ds)
        out == [k \in 1..n |->
                   (ds[k] + (IF k > 1 /\ ds[k - 1] % 2 = 1 THEN 10 ELSE 0)) \div 2]
    IN  PointAt(out, Len(x.frac) + 1)

\* x * 2^e, the steps split in two halves.
RECURSIVE TimesTwoTo(_, _)
TimesTwoTo(x, e) ==
    IF e = 0 THEN x
    ELSE IF e = 1 THEN DoubleDecimal(x)
    ELSE IF e = -1 THEN HalveDecimal(x)
    ELSE The({TimesTwoTo(v, e - e \div 2) : v \in {TimesTwoTo(x, e \div 2)}})

\* 2^52 and 2^53: the significand m of a double has 2^52 <= m < 2^53, or
\* is smaller at the least exponent.
TwoTo52 == [int |-> <<4, 5, 0, 3, 5, 9, 9, 6, 2, 7, 3, 7, 0, 4, 9, 6>>, frac |-> <<>>]

TwoTo53 == [int |-> <<9, 0, 0, 7, 1, 9, 9, 2, 5, 4, 7, 4, 0, 9, 9, 2>>, frac |-> <<>>]

\* w and e with x = w * 2^e for x > 0, and 2^52 <= w < 2^53 or e the least
\* exponent of a double, -1074: the most halvings that leave w at 2^52 or more, or the most
\* doublings that leave w below 2^53, found step by step, each step half
\* the one before.  w / 2^step can reach 2^52 only if w has more than
\* (52 + step) * log10(2) digits before the point; w * 2^step can stay
\* below 2^53 only if step < 53 for w >= 1 and only if 2^step <
\* 2^53 * 10^(z + 1) for w with z zeros after the point.
RECURSIVE ScaleToSignificand(_, _, _)
ScaleToSignificand(w, e, step) ==
    IF step = 0 THEN [w |-> w, e |-> e]
    ELSE IF CompareDecimal(w, TwoTo53) >= 0 \/ e > 0
    THEN IF 10 * Len(w.int) <= 156 + 3 * step
         THEN ScaleToSignificand(w, e, step \div 2)
         ELSE The({IF CompareDecimal(v, TwoTo52) < 0
                   THEN ScaleToSignificand(w, e, step \div 2)
                   ELSE ScaleToSignificand(v, e + step, step \div 2) :
                       v \in {TimesTwoTo(w, 0 - step)}})
    ELSE IF \/ e - step < -1074
            \/ (w.int # <<>> /\ step >= 53)
            \/ (w.int = <<>> /\ 3 * step >= 170 + 10 * LeadingZeros(w.frac))
         THEN ScaleToSignificand(w, e, step \div 2)
         ELSE The({IF CompareDecimal(v, TwoTo53) < 0
                   THEN ScaleToSignificand(v, e - step, step \div 2)
                   ELSE ScaleToSignificand(w, e, step \div 2) :
                       v \in {TimesTwoTo(w, step)}})

\* The double nearest to the decimal x >= 0, ties to the even significand,
\* written exactly; inf when x rounds beyond the largest double, which has
\* the exponent 971.
RoundToDouble(x) ==
    IF x.frac = <<>> /\ CompareDecimal(x, TwoTo53) < 0
    THEN [inf |-> FALSE, value |-> x]
    ELSE The({ The({ IF s.e > 971 \/ (s.e = 971 /\ m = TwoTo53)
                     THEN [inf |-> TRUE, value |-> x]
                     ELSE [inf |-> FALSE, value |-> TimesTwoTo(m, s.e)] :
                       m \in {The({ IF half > 0 \/ (half = 0 /\ s.w.int # <<>>
                                                      /\ s.w.int[Len(s.w.int)] % 2 = 1)
                                    THEN AddDecimal([int |-> s.w.int, frac |-> <<>>],
                                                    [int |-> <<1>>, frac |-> <<>>])
                                    ELSE [int |-> s.w.int, frac |-> <<>>] :
                                      half \in {CompareDecimal(
                                                   [int |-> <<>>, frac |-> s.w.frac],
                                                   [int |-> <<>>, frac |-> <<5>>])} })} }) :
                 s \in {ScaleToSignificand(x, 0, 1024)} })

\* x > 0 as 0.d1 d2 ... dn * 10^k with d1 and dn not 0.
Significant(x) ==
    IF x.int # <<>>
    THEN [digits |-> DropTrailingZeros(x.int \o x.frac), k |-> Len(x.int)]
    ELSE [digits |-> DropLeadingZeros(x.frac), k |-> 0 - LeadingZeros(x.frac)]

\* 0.d1 d2 ... dn * 10^k
FromSignificant(ds, k) ==
    IF k >= Len(ds) THEN Decimal(ds \o Zeros(k - Len(ds)), <<>>)
    ELSE IF k > 0 THEN Decimal(SubSeq(ds, 1, k), SubSeq(ds, k + 1, Len(ds)))
    ELSE Decimal(<<>>, Zeros(0 - k) \o ds)

\* The decimal of n digits that reads back as the double v, the nearest to
\* v (the even one of two as near): the candidates are the first n digits
\* of v and the numeral one unit of the last place above.  <<>> when
\* neither reads back as v.
OfLength(v, n) ==
    The({
        The({
            The({
                The({ IF back.low.value = v /\ ~back.low.inf
                         /\ back.high.value = v /\ ~back.high.inf
                      THEN The({ IF rest < 0 THEN low
                                 ELSE IF rest > 0 THEN high
                                 ELSE IF sig.digits[n] % 2 = 0 THEN low ELSE high :
                                   rest \in {CompareDecimal(
                                       [int |-> <<>>,
                                        frac |-> SubSeq(sig.digits, n + 1, Len(sig.digits))],
                                       [int |-> <<>>, frac |-> <<5>>])} })
                      ELSE IF back.low.value = v /\ ~back.low.inf THEN low
                      ELSE IF back.high.value = v /\ ~back.high.inf THEN high
                      ELSE <<>> :
                        back \in {[low |-> RoundToDouble(low),
                                   high |-> RoundToDouble(high)]} }) :
                low \in {FromSignificant(SubSeq(sig.digits, 1, n), sig.k)},
                high \in {FromSignificant(hi, sig.k + Len(hi) - n)} }) :
            hi \in {AddDecimal(Decimal(SubSeq(sig.digits, 1, n), <<>>),
                               [int |-> <<1>>, frac |-> <<>>]).int} }) :
        sig \in {Significant(v)} })

\* The shortest decimal that reads back as the double v, of n digits at
\* least: the digits that Number::toString prints.
RECURSIVE Shortest(_, _)
Shortest(v, n) ==
    IF (v.int = <<>> /\ v.frac = <<>>) \/ n >= Len(Significant(v).digits) THEN v
    ELSE The({ IF found = <<>> THEN Shortest(v, n + 1) ELSE found :
                 found \in {OfLength(v, n)} })

NaN == [nan |-> TRUE, inf |-> FALSE, neg |-> FALSE, int |-> <<>>, frac |-> <<>>]

Infinity(neg) ==
    [nan |-> FALSE, inf |-> TRUE, neg |-> neg, int |-> <<>>, frac |-> <<>>]

Finite(neg, x) ==
    [nan |-> FALSE, inf |-> FALSE, neg |-> neg, int |-> x.int, frac |-> x.frac]

\* The Number nearest to the decimal x >= 0, with the sign given.
ToNumber(neg, x) ==
    The({ IF d.inf THEN Infinity(neg) ELSE Finite(neg, Shortest(d.value, 1)) :
            d \in {RoundToDouble(x)} })

\* Number::add, on the exact values a and b of the doubles behind two
\* finite numbers.
NumberAdd(x, y) ==
    IF x.nan \/ y.nan THEN NaN
    ELSE IF x.inf /\ y.inf THEN IF x.neg = y.neg THEN x ELSE NaN
    ELSE IF x.inf THEN x
    ELSE IF y.inf THEN y
    ELSE The({
             IF a.int = <<>> /\ a.frac = <<>> /\ b.int = <<>> /\ b.frac = <<>>
             THEN Finite(x.neg /\ y.neg, [int |-> <<>>, frac |-> <<>>])
             ELSE The({ IF x.neg # y.neg /\ order = 0
                        THEN Finite(FALSE, [int |-> <<>>, frac |-> <<>>])
                        ELSE The({ ToNumber(sum.neg, sum.value) :
                                     sum \in {IF x.neg = y.neg
                                              THEN [neg |-> x.neg, value |-> AddDecimal(a, b)]
                                              ELSE IF order > 0
                                              THEN [neg |-> x.neg, value |-> SubDecimal(a, b)]
                                              ELSE [neg |-> y.neg, value |-> SubDecimal(b, a)]} }) :
                          order \in {CompareDecimal(a, b)} }) :
               a \in {RoundToDouble([int |-> x.int, frac |-> x.frac]).value},
               b \in {RoundToDouble([int |-> y.int, frac |-> y.frac]).value} })

DigitChars(ds) ==
    [k \in 1..Len(ds) |->
        <<"0", "1", "2", "3", "4", "5", "6", "7", "8", "9">>[ds[k] + 1]]

\* The decimal digits of a natural number.
RECURSIVE NaturalDigits(_)
NaturalDigits(n) ==
    IF n < 10 THEN <<n>> ELSE NaturalDigits(n \div 10) \o <<n % 10>>

\* The value of a digit of a numeral in radix 2, 8 or 16, -1 for any other
\* character.
RadixDigit(c) ==
    CASE c \in Digits -> DigitValue(c)
      [] c \in {"a", "A"} -> 10 [] c \in {"b", "B"} -> 11
      [] c \in {"c", "C"} -> 12 [] c \in {"d", "D"} -> 13
      [] c \in {"e", "E"} -> 14 [] c \in {"f", "F"} -> 15
      [] OTHER -> -1

\* NonDecimalIntegerLiteral: 0x, 0o or 0b and at least one digit of the
\* radix; val is the value of the digits from position i on, acc being the
\* value of the digits before.
NonDecimalLiteral(t) ==
    LET radix == IF Len(t) < 2 THEN 0
                 ELSE CASE t[2] \in {"x", "X"} -> 16
                        [] t[2] \in {"o", "O"} -> 8
                        [] t[2] \in {"b", "B"} -> 2
                        [] OTHER -> 0
        RECURSIVE Value(_, _)
        Value(i, acc) ==
            IF i > Len(t) THEN acc
            ELSE The({Value(i + 1, v) :
                         v \in {AddDecimal(
                                   TimesTwoTo(acc, CASE radix = 16 -> 4
                                                     [] radix = 8 -> 3
                                                     [] radix = 2 -> 1),
                                   Decimal(NaturalDigits(RadixDigit(t[i])), <<>>))}})
        ok == /\ Len(t) >= 3
              /\ t[1] = "0"
              /\ radix # 0
              /\ \A k \in 3..Len(t) : RadixDigit(t[k]) >= 0 /\ RadixDigit(t[k]) < radix
    IN  [ok |-> ok,
         val |-> IF ok THEN Value(3, [int |-> <<>>, frac |-> <<>>])
                 ELSE [int |-> <<>>, frac |-> <<>>]]

\* StrUnsignedDecimalLiteral: digits, an optional point and digits (a digit
\* on one side of the point at least), then an optional exponent part: e
\* or E, an optional sign and at least one digit.  The literal is zero or
\* 0.d1 d2 ... dn * 10^k.  An exponent of more than five digits counts as
\* 100000, far beyond the range of a double.
DecimalLiteral(body) ==
    LET Values(cs) == [k \in 1..Len(cs) |-> DigitValue(cs[k])]
        ip == DigitPrefix(body)
        r1 == SubSeq(body, Len(ip) + 1, Len(body))
        point == r1 # <<>> /\ Head(r1) = "."
        fp == IF point THEN DigitPrefix(Tail(r1)) ELSE <<>>
        r2 == IF point THEN SubSeq(r1, Len(fp) + 2, Len(r1)) ELSE r1
        marked == r2 # <<>> /\ Head(r2) \in {"e", "E"}
        r3 == IF marked THEN Tail(r2) ELSE r2
        signed == marked /\ r3 # <<>> /\ Head(r3) \in {"+", "-"}
        es == IF signed THEN Tail(r3) ELSE r3
        exponentOk == IF marked
                      THEN es # <<>> /\ \A k \in 1..Len(es) : es[k] \in Digits
                      ELSE r2 = <<>>
        size == IF ~(marked /\ exponentOk) THEN 0
                ELSE IF Len(DropLeadingZeros(Values(es))) > 5 THEN 100000
                ELSE DigitsValue(es, 0)
        exponent == IF signed /\ Head(r3) = "-" THEN 0 - size ELSE size
        all == Values(ip \o fp)
    IN  [ok |-> Len(ip) + Len(fp) >= 1 /\ exponentOk,
         zero |-> LeadingZeros(all) = Len(all),
         digits |-> DropTrailingZeros(DropLeadingZeros(all)),
         k |-> Len(ip) - LeadingZeros(all) + exponent]

\* Number(str), the conversion StringToNumber: white space around the
\* numeral is dropped; the empty string is 0; a numeral is "Infinity" or a
\* decimal literal, with an optional sign, or a literal with the prefix 0x,
\* 0o or 0b, without a sign; any other text is NaN.  0.d1..dn * 10^k with
\* k >= 310 is beyond every double and with k <= -324 below half the least
\* double.
Number(str) ==
    LET t == Trim(str)
        signed == t # <<>> /\ Head(t) \in {"+", "-"}
        neg == signed /\ Head(t) = "-"
        body == IF signed THEN Tail(t) ELSE t
        literal == DecimalLiteral(body)
        other == NonDecimalLiteral(t)
    IN  IF t = <<>> THEN Finite(FALSE, [int |-> <<>>, frac |-> <<>>])
        ELSE IF other.ok THEN ToNumber(FALSE, other.val)
        ELSE IF body = <<"I", "n", "f", "i", "n", "i", "t", "y">> THEN Infinity(neg)
        ELSE IF ~literal.ok THEN NaN
        ELSE IF literal.zero \/ literal.k <= -324
        THEN Finite(neg, [int |-> <<>>, frac |-> <<>>])
        ELSE IF literal.k >= 310 THEN Infinity(neg)
        ELSE ToNumber(neg, FromSignificant(literal.digits, literal.k))

\* parseInt(s, 10): leading white space is skipped, then an optional sign,
\* then the longest run of digits; what follows the digits is ignored.  NaN
\* when there is no digit; otherwise the Number nearest to the integer the
\* digits write, with the sign (-0 for "-0").  An integer of 310 digits or
\* more is beyond every double.
parseInt(s) ==
    LET t == TrimStart(s)
        signed == t # <<>> /\ Head(t) \in {"+", "-"}
        neg == signed /\ Head(t) = "-"
        body == IF signed THEN Tail(t) ELSE t
        ds == DigitPrefix(body)
        digits == DropLeadingZeros([k \in 1..Len(ds) |-> DigitValue(ds[k])])
    IN  IF ds = <<>> THEN NaN
        ELSE IF Len(digits) >= 310 THEN Infinity(neg)
        ELSE ToNumber(neg, [int |-> digits, frac |-> <<>>])

\* The number n of an integer n.
IntegerNumber(n) ==
    Finite(n < 0, Decimal(NaturalDigits(IF n < 0 THEN 0 - n ELSE n), <<>>))

\* x < y on numbers: false when one of them is NaN; -0 and 0 are equal.
NumberLess(x, y) ==
    LET Sign(v) == IF ~v.inf /\ v.int = <<>> /\ v.frac = <<>> THEN 0
                   ELSE IF v.neg THEN -1 ELSE 1
        Smaller(a, b) == ~a.inf /\ (b.inf \/ CompareDecimal(a, b) < 0)
    IN  IF x.nan \/ y.nan THEN FALSE
        ELSE IF Sign(x) # Sign(y) THEN Sign(x) < Sign(y)
        ELSE IF Sign(x) = 1 THEN Smaller(x, y)
        ELSE IF Sign(x) = -1 THEN Smaller(y, x)
        ELSE FALSE

\* A number in a template literal, Number::toString(x) in radix 10: the
\* digits d1..dn of the shortest numeral and the exponent k place the
\* point; exponent notation is used when k > 21 or k < -5.
numberToString(x) ==
    IF x.nan THEN <<"N", "a", "N">>
    ELSE IF x.inf
    THEN (IF x.neg THEN <<"-">> ELSE <<>>) \o <<"I", "n", "f", "i", "n", "i", "t", "y">>
    ELSE IF x.int = <<>> /\ x.frac = <<>> THEN <<"0">>
    ELSE LET sig == Significant(x)
             ds == DigitChars(sig.digits)
             n == Len(ds)
             k == sig.k
             e == k - 1
             exponent == <<"e", IF e < 0 THEN "-" ELSE "+">>
                             \o DigitChars(NaturalDigits(IF e < 0 THEN 0 - e ELSE e))
             text ==
                 IF n <= k /\ k <= 21 THEN ds \o DigitChars(Zeros(k - n))
                 ELSE IF 0 < k /\ k <= 21
                 THEN SubSeq(ds, 1, k) \o <<".">> \o SubSeq(ds, k + 1, n)
                 ELSE IF -6 < k /\ k <= 0
                 THEN <<"0", ".">> \o DigitChars(Zeros(0 - k)) \o ds
                 ELSE IF n = 1 THEN ds \o exponent
                 ELSE <<ds[1], ".">> \o SubSeq(ds, 2, n) \o exponent
         IN  (IF x.neg THEN <<"-">> ELSE <<>>) \o text

-----------------------------------------------------------------------------
(* splitDescription: the two lines of a description on the label.          *)

\* The default of the parameter maxLength.
DefaultMaxLength == 25

Min(a, b) == IF a < b THEN a ELSE b

\* String.prototype.lastIndexOf for a one-character search string: the
\* greatest 0-based index, at most fromIndex, at which c stands in str;
\* -1 when there is none.
RECURSIVE LastIndexDown(_, _, _)
LastIndexDown(str, c, k) ==
    IF k < 0 THEN -1
    ELSE IF str[k + 1] = c THEN k
    ELSE LastIndexDown(str, c, k - 1)

lastIndexOf(str, c, fromIndex) ==
    LastIndexDown(str, c, Min(IF fromIndex < 0 THEN 0 ELSE fromIndex, Len(str) - 1))

\* String.prototype.substring(start, end) and substring(start), for
\* 0 <= start <= end.
substring(str, start, end) == SubSeq(str, start + 1, Min(end, Len(str)))

substringFrom(str, start) == SubSeq(str, start + 1, Len(str))

\* Mutant of splitPos: the search for the space starts one character early.
splitPosEarly(trimmedDesc, maxLength) ==
    LET found == lastIndexOf(trimmedDesc, SP, maxLength - 1)
    IN  IF found <= 0 THEN maxLength ELSE found

\* Mutant of splitPos: the search for the space starts one character late.
splitPosLate(trimmedDesc, maxLength) ==
    LET found == lastIndexOf(trimmedDesc, SP, maxLength + 1)
    IN  IF found <= 0 THEN maxLength ELSE found

\* The value of splitPos when the two lines are cut.
splitPos(trimmedDesc, maxLength) ==
    LET found == lastIndexOf(trimmedDesc, SP, maxLength)
    IN  IF found <= 0 THEN maxLength ELSE found

\* Mutant of splitLines: the character at pos is always left out.
splitLinesSkipping(trimmedDesc, pos) ==
    <<Trim(substring(trimmedDesc, 0, pos)), Trim(substringFrom(trimmedDesc, pos + 1))>>

\* line1 and line2 for a cut at pos.
splitLines(trimmedDesc, pos) ==
    <<Trim(substring(trimmedDesc, 0, pos)), Trim(substringFrom(trimmedDesc, pos))>>

splitDescription(description, maxLength) ==
    LET trimmedDesc == Trim(description)
    IN  IF Len(trimmedDesc) <= maxLength
        THEN <<trimmedDesc, <<>>>>
        ELSE splitLines(trimmedDesc, splitPos(trimmedDesc, maxLength))

-----------------------------------------------------------------------------
(* The headers handleProcessData looks for.                                *)

CODE_HEADER ==
    <<"N", "ú", "m", "e", "r", "o", " ", "d", "e", " ",
      "a", "r", "t", "í", "c", "u", "l", "o">>

DESC_HEADER ==
    <<"D", "e", "s", "c", "r", "i", "p", "c", "i", "ó", "n", " ",
      "d", "e", "l", " ", "a", "r", "t", "í", "c", "u", "l", "o">>

QTY_HEADER ==
    <<"C", "a", "n", "t", "i", "d", "a", "d", " ", "d", "e", " ",
      "E", "t", "i", "q", "u", "e", "t", "a", "s">>

-----------------------------------------------------------------------------
(* Messages. null is the empty tuple; a message is a tuple of its kind and *)
(* what it names.                                                          *)

NULL == <<>>
InsufficientRows == <<"InsufficientRows">>
MissingColumn(header) == <<"MissingColumn", header>>
NoValidRows == <<"NoValidRows">>
Processed == <<"Datos procesados correctamente.">>
Downloaded == <<"Archivo TXT generado y descargado correctamente.">>

\* No file content: the step starts no download.
NoDocument == <<"NoDocument">>

\* No call of splitDescription on its own.
NoCall == <<"NoCall">>

-----------------------------------------------------------------------------
(* What the textarea can hold when the user clicks the button.             *)

RECURSIVE JoinWith(_, _)
JoinWith(pieces, sep) ==
    IF Len(pieces) = 0 THEN <<>>
    ELSE IF Len(pieces) = 1 THEN pieces[1]
    ELSE pieces[1] \o <<sep>> \o JoinWith(Tail(pieces), sep)

FullHeader == JoinWith(<<CODE_HEADER, DESC_HEADER, QTY_HEADER>>, TAB)

\* One table: a header line and data rows, each row a tuple of cells.
Table(headerLine, dataRows) ==
    JoinWith(<<headerLine>> \o [k \in 1..Len(dataRows) |-> JoinWith(dataRows[k], TAB)], NL)

PasteTexts ==
    { <<>>,                                                  \* nothing pasted
      <<SP, NL, TAB>>,                                       \* white space only
      FullHeader,                                            \* a header and no data
      FullHeader \o <<NL, SP, NL>>,                          \* a header and blank lines
      <<"x">> \o <<NL>> \o <<SP, SP>>,                       \* one line that is no header
      Table(JoinWith(<<DESC_HEADER, QTY_HEADER>>, TAB),
            << <<<<"a", "b">>, <<"3">>>> >>),                \* no code header
      Table(JoinWith(<<CODE_HEADER, <<"x">>, <<"y">>>>, TAB),
            << <<<<"1">>, <<"a", "b">>, <<"3">>>> >>),       \* no description, no quantity header
      Table(JoinWith(<<CODE_HEADER, DESC_HEADER, <<"C", "a", "n", "t">>>>, TAB),
            << <<<<"1">>, <<"a", "b">>, <<"3">>>> >>),       \* quantity header renamed
      Table(FullHeader, << <<<<"1">>, <<"a", "b">>, <<"3">>>> >>),
      Table(FullHeader, << <<<<"1">>, <<"a", "b">>, <<>>>>,
                           <<<<"5">>, <<"c">>, <<"3">>>> >>),       \* empty quantity, then 3
      Table(FullHeader, << <<<<"1">>, <<"a", "b">>, <<>>>> >>),    \* empty quantity at the end
      Table(FullHeader, << <<<<"1">>, <<"a", "b">>, <<"-", "2">>>> >>),
      Table(FullHeader, << <<<<"1">>, <<"a", "b">>, <<"2", "x">>>> >>),
      Table(FullHeader, << <<<<"1">>, <<"a", "b">>, <<"x">>>> >>),
      Table(FullHeader, << <<<<"1">>, <<"a", "b">>, <<"0">>>> >>),
      Table(FullHeader, << <<<<"1">>, <<ZWSP>>, <<"3">>>> >>),     \* description of zero-width characters only
      Table(FullHeader, << <<<<"1">>, <<"a", ZWSP, "b">>, <<"3">>>> >>),
      Table(FullHeader, << <<<<"1">>, <<"a", SP, ZWSP>>, <<"3">>>> >>),
      Table(FullHeader, << <<<<>>, <<"a", "b">>, <<"3">>>> >>),    \* empty code
      Table(FullHeader, << <<<<"1">>, <<"a", "b">>>>,
                           <<<<>>, <<>>, <<>>>> >>),               \* a short row, an empty row
      Table(JoinWith(<<QTY_HEADER, <<"x">>, DESC_HEADER, CODE_HEADER>>, TAB),
            << <<<<"3">>, <<"z">>, <<"a", "b">>, <<"1">>>> >>),    \* other column order, extra column
      <<TAB>> \o Table(FullHeader, << <<<<>>, <<"1">>, <<"a", "b">>, <<"3">>>> >>),  \* first column empty
      <<TAB>> \o Table(JoinWith(<<QTY_HEADER, CODE_HEADER, DESC_HEADER>>, TAB),
                        << <<<<"8">>, <<"3">>, <<"1">>, <<"a", "b">>>> >>),  \* first column without a header
      Table(FullHeader \o <<CR>>, << <<<<"1">>, <<"a", "b">>, <<"1", CR>>>> >>) \o <<NL>>  \* CR LF line ends
    }

\* What the user can type into a quantity field (an <input type="number">).
QuantityInputs == { <<"7">>, <<"0">>, <<>>, <<"-", "1">> }

\* What the user can enter in the manual-entry dialog.
ManualCodes == { <<"9">>, <<SP>> }
ManualDescriptions == { <<"a", "b">>, <<"a", ZWSP, "b">>, <<>> }
ManualQuantities ==
    { <<"-", "1">>, <<"0">>, <<"2">>, <<"0", ".", "5">>,
      <<"0", ".", "1">>, <<"0", ".", "2">>, <<"1", ".", "2", "5">> }

\* setQuantity(Number(e.target.value)): the numbers the dialog can hold.
ManualNumbers == { Number(value) : value \in ManualQuantities }

-----------------------------------------------------------------------------
(* The markers of the printer commands, and pasted tables and entries that *)
(* carry them.                                                             *)

\* The characters of a string literal, one by one.
Chars(literal) == [k \in 1..Len(literal) |-> SubSeq(literal, k, k)]

\* The control characters, written out as text between angle brackets.
STX == Chars("<STX>")
ETX == Chars("<ETX>")
ESC == Chars("<ESC>")
LF == Chars("<LF>")
US == Chars("<US>")
ETB == Chars("<ETB>")
CAN == Chars("<CAN>")
SI == Chars("<SI>")

\* The control characters themselves, as the third build writes them.
RawSTX == "U+0002"
RawETX == "U+0003"
RawESC == "U+001B"
RawLF == "\n"
RawUS == "U+001F"
RawETB == "U+0017"
RawCAN == "U+0018"

MarkerValues ==
    { STX, ETX, US, ETB, CAN,
      <<RawSTX>>, <<RawETX>>, <<RawUS>>, <<RawETB>>, <<RawCAN>> }

MarkedDescriptions ==
    { <<"a", "b">> } \cup { <<"a">> \o m \o <<"b">> : m \in MarkerValues }

MarkedCodes == { <<"1">> \o ETX, <<"1", RawETX>> }

\* Tables of one data row of quantity 2: every marked description with the
\* code 1, and every marked code with the description ab.
MarkedTexts ==
    { Table(FullHeader, << <<<<"1">>, description, <<"2">>>> >>) :
        description \in MarkedDescriptions }
    \cup { Table(FullHeader, << <<code, <<"a", "b">>, <<"2">>>> >>) :
             code \in MarkedCodes }

-----------------------------------------------------------------------------
(* handleProcessData, the parts the builds share.                          *)

NotBlank(row) == Trim(row) # <<>>

\* text.split("\n").filter((row) => row.trim() !== "")
nonEmptyRows(text) == SelectSeq(Split(text, NL), NotBlank)

\* Mutant of tooFewRows: the comparison off by one.
tooFewRowsOffByOne(rows) == Len(rows) < 1

\* rows.length < 2
tooFewRows(rows) == Len(rows) < 2

\* headerRow.split("\t").map((h) => h.trim())
headersOf(headerRow) == MapTrim(Split(headerRow, TAB))

\* Mutant of missingHeader: the checks in the opposite order.
missingHeaderReversed(codeIndex, descIndex, qtyIndex) ==
    IF qtyIndex = -1 THEN QTY_HEADER
    ELSE IF descIndex = -1 THEN DESC_HEADER
    ELSE IF codeIndex = -1 THEN CODE_HEADER
    ELSE NULL

\* The three checks of the header indexes, in their order: the header the
\* error names, NULL when all three were found.
missingHeader(codeIndex, descIndex, qtyIndex) ==
    IF codeIndex = -1 THEN CODE_HEADER
    ELSE IF descIndex = -1 THEN DESC_HEADER
    ELSE IF qtyIndex = -1 THEN QTY_HEADER
    ELSE NULL

\* `label-${Date.now()}-${index}`
labelId(t, index) == <<"label", t, index>>

\* `label-manual-${Date.now()}`
manualId(t) == <<"label-manual", t>>

\* Mutant of appendLabels: the new records first.
prependLabels(currentLabels, newLabels) == newLabels \o currentLabels

\* (currentLabels) => [...currentLabels, ...newLabels]
appendLabels(currentLabels, newLabels) == currentLabels \o newLabels

-----------------------------------------------------------------------------
(* The lenient build: src/App.tsx:51-434.                                  *)

\* Mutant of rowLabel: the code is not required.
rowLabelAnyCode(rowStr, index, codeIndex, descIndex, qtyIndex, t) ==
    LET columns == MapTrim(Split(rowStr, TAB))
    IN  IF Len(columns) > Max3(codeIndex, descIndex, qtyIndex)
        THEN LET code == columns[codeIndex + 1]
                 description == sanitizeString(columns[descIndex + 1])
                 quantityStr == columns[qtyIndex + 1]
                 quantity == IF quantityStr # <<>> /\ ~parseInt(quantityStr).nan
                             THEN parseInt(quantityStr)
                             ELSE IntegerNumber(0)
             IN  IF description # <<>>
                 THEN <<[id |-> labelId(t, index), code |-> code,
                         description |-> description, quantity |-> quantity]>>
                 ELSE <<>>
        ELSE <<>>

\* The body of dataRows.forEach for one row: the records it pushes (none or
\* one).
rowLabel(rowStr, index, codeIndex, descIndex, qtyIndex, t) ==
    LET columns == MapTrim(Split(rowStr, TAB))
    IN  IF Len(columns) > Max3(codeIndex, descIndex, qtyIndex)
        THEN LET code == columns[codeIndex + 1]
                 description == sanitizeString(columns[descIndex + 1])
                 quantityStr == columns[qtyIndex + 1]
                 quantity == IF quantityStr # <<>> /\ ~parseInt(quantityStr).nan
                             THEN parseInt(quantityStr)
                             ELSE IntegerNumber(0)
             IN  IF code # <<>> /\ description # <<>>
                 THEN <<[id |-> labelId(t, index), code |-> code,
                         description |-> description, quantity |-> quantity]>>
                 ELSE <<>>
        ELSE <<>>

\* What Date.now() can return at n successive readings when it returns t
\* now: the clock does not go back, and it can go on between two readings.
ClockReadings(t, n) ==
    { times \in [1..n -> t..MaxClock] : \A k \in 1..(n - 1) : times[k] <= times[k + 1] }

\* The number of rows dataRows.forEach goes through.
dataRowCount(value) ==
    LET rows == nonEmptyRows(Trim(value))
    IN  IF Len(rows) = 0 THEN 0 ELSE Len(rows) - 1

\* The clock after the readings of times, t when there is none.
clockAfter(t, times) == IF Len(times) = 0 THEN t ELSE times[Len(times)]

\* dataRows.forEach((rowStr, index) => ...), from row number index on.
\* times[index + 1] is what Date.now() returns in the call for that row.
RECURSIVE forEachRow(_, _, _, _, _, _)
forEachRow(dataRows, index, codeIndex, descIndex, qtyIndex, times) ==
    IF index >= Len(dataRows) THEN <<>>
    ELSE rowLabel(dataRows[index + 1], index, codeIndex, descIndex, qtyIndex,
                  times[index + 1])
         \o forEachRow(dataRows, index + 1, codeIndex, descIndex, qtyIndex, times)

\* onChange of the textarea.
handleInputChange ==
    /\ error' = NULL
    /\ success' = NULL
    /\ document' = NoDocument
    /\ UNCHANGED <<labels, now, splitCall, build>>

\* handleProcessData from the trim of the textarea's value to the choice of
\* the message: the error it sets (NULL when none) and the records it has
\* collected in newLabels. value is pasteAreaRef.current.value and times is
\* what Date.now() returns row by row.
processData(value, times) ==
    LET text == Trim(value)
        rows == nonEmptyRows(text)
        headers == headersOf(rows[1])
        codeIndex == indexOf(headers, CODE_HEADER)
        descIndex == indexOf(headers, DESC_HEADER)
        qtyIndex == indexOf(headers, QTY_HEADER)
        missing == missingHeader(codeIndex, descIndex, qtyIndex)
        dataRows == Tail(rows)
        newLabels == forEachRow(dataRows, 0, codeIndex, descIndex, qtyIndex, times)
    IN  IF value = <<>> \/ text = <<>>
        THEN [error |-> NULL, newLabels |-> <<>>]
        ELSE IF tooFewRows(rows)
        THEN [error |-> InsufficientRows, newLabels |-> <<>>]
        ELSE IF missing # NULL
        THEN [error |-> MissingColumn(missing), newLabels |-> <<>>]
        ELSE IF Len(newLabels) > 0
        THEN [error |-> NULL, newLabels |-> newLabels]
        ELSE [error |-> NoValidRows, newLabels |-> <<>>]

\* dataRowCount on every content of the textarea, computed once.
RowCountTable ==
    { <<value, dataRowCount(value)>> : value \in PasteTexts \cup MarkedTexts }

rowsCounted(value) ==
    IF value \in PasteTexts \cup MarkedTexts
    THEN (CHOOSE e \in RowCountTable : e[1] = value)[2]
    ELSE dataRowCount(value)

\* Every content of the textarea with all clock readings of its rows.
ProcessCalls ==
    UNION { { <<value, times>> : times \in ClockReadings(0, dataRowCount(value)) } :
            value \in PasteTexts \cup MarkedTexts }

\* processData on every content of the textarea and all clock readings,
\* computed once.
ProcessTable ==
    { <<call[1], call[2], processData(call[1], call[2])>> : call \in ProcessCalls }

processed(value, times) ==
    IF value \in PasteTexts \cup MarkedTexts
    THEN (CHOOSE e \in ProcessTable : e[1] = value /\ e[2] = times)[3]
    ELSE processData(value, times)

\* The click on "Procesar y Añadir a la Lista". value is the content of the
\* textarea at the click; the handler empties the textarea after a
\* successful parse, and the next click reads what the user has put there
\* by then.
handleProcessData(value) ==
    \E times \in ClockReadings(now, rowsCounted(value)) :
        LET done == processed(value, times)
        IN  IF Len(done.newLabels) > 0
            THEN /\ Len(labels) + Len(done.newLabels) <= MaxLabels
                 /\ labels' = appendLabels(labels, done.newLabels)
                 /\ error' = NULL
                 /\ success' = Processed
                 /\ document' = NoDocument
                 /\ now' = clockAfter(now, times)
                 /\ UNCHANGED <<splitCall, build>>
            ELSE /\ error' = done.error
                 /\ success' = NULL
                 /\ document' = NoDocument
                 /\ now' = clockAfter(now, times)
                 /\ UNCHANGED <<labels, splitCall, build>>

KeepsOtherIds(currentLabels, id) ==
    SelectSeq(currentLabels, LAMBDA l : l.id # id)

handleRemoveLabel(id) ==
    /\ labels' = KeepsOtherIds(labels, id)
    /\ success' = NULL
    /\ document' = NoDocument
    /\ UNCHANGED <<error, now, splitCall, build>>

\* Mutant of withQuantity: the quantity goes to every record.
withQuantityOfAll(currentLabels, id, qty) ==
    [k \in 1..Len(currentLabels) |->
        [currentLabels[k] EXCEPT !.quantity = qty]]

\* currentLabels.map(l => l.id === id ? { ...l, quantity: qty } : l)
withQuantity(currentLabels, id, qty) ==
    [k \in 1..Len(currentLabels) |->
        IF currentLabels[k].id = id
        THEN [currentLabels[k] EXCEPT !.quantity = qty]
        ELSE currentLabels[k]]

handleQuantityChange(id, qty) ==
    /\ labels' = withQuantity(labels, id, qty)
    /\ success' = NULL
    /\ document' = NoDocument
    /\ UNCHANGED <<error, now, splitCall, build>>

\* Mutant of acceptsQuantity: val >= 0 in place of val > 0.
acceptsQuantityZero(val) == ~val.nan /\ ~NumberLess(val, IntegerNumber(0))

\* The quantity the card passes on: !isNaN(val) && val > 0.
acceptsQuantity(val) == ~val.nan /\ NumberLess(IntegerNumber(0), val)

\* LabelCardEditable: onChange of the quantity field of the card of label.
onQuantityInput(label, value) ==
    IF acceptsQuantity(parseInt(value))
    THEN handleQuantityChange(label.id, parseInt(value))
    ELSE UNCHANGED vars

-----------------------------------------------------------------------------
(* The printer file of the lenient build: one label across, the exact      *)
(* quantity in one block per record.                                       *)

CRLF == <<CR, NL>>

\* Array.prototype.join
RECURSIVE join(_, _)
join(arr, separator) ==
    IF Len(arr) = 0 THEN <<>>
    ELSE IF Len(arr) = 1 THEN arr[1]
    ELSE arr[1] \o separator \o join(Tail(arr), separator)

\* One command: what stands between STX and ETX.
command(body) == STX \o body \o ETX

\* F"field"<LF>value
assign(field, value) == command(ESC \o Chars("F\"") \o Chars(field) \o Chars("\"") \o LF \o value)

header ==
    << command(SI \o Chars("g1,420")),
       command(SI \o Chars("d5")),
       command(SI \o Chars("s50")),
       command(ESC \o Chars("P;")),
       command(Chars("E1,1;A1,ETIQ2J;")),
       command(Chars("L39;D0;")),
       command(Chars("B0,BR0;o60,210;f1;c6,0;h50;w1;r0;i1;d0,12")),
       command(Chars("H3,TX3;o10,260;f1;c25;h8;w7;d0,25;")),
       command(Chars("H4,TX4;o30,260;f1;c25;h8;w7;d0,25;")),
       command(Chars("I0;o110,220;f1;c25;h12;w12;")),
       command(Chars("R")),
       <<>> >>

\* Mutant of buildLabelBlock: the quantity directive is written twice.
buildLabelBlockTwice(code, line1, line2, qty) ==
    command(ESC \o Chars("E1") \o CAN) \o CRLF
    \o assign("BR0", code) \o CRLF
    \o assign("TX3", line1) \o CRLF
    \o assign("TX4", line2) \o CRLF
    \o command(US \o numberToString(qty)) \o CRLF
    \o command(US \o numberToString(qty)) \o CRLF
    \o command(ETB) \o CRLF

buildLabelBlock(code, line1, line2, qty) ==
    command(ESC \o Chars("E1") \o CAN) \o CRLF
    \o assign("BR0", code) \o CRLF
    \o assign("TX3", line1) \o CRLF
    \o assign("TX4", line2) \o CRLF
    \o command(US \o numberToString(qty)) \o CRLF
    \o command(ETB) \o CRLF

\* The block of one record.
labelBlock(label) ==
    LET lines == splitDescription(label.description, DefaultMaxLength)
    IN  buildLabelBlock(label.code, lines[1], lines[2], label.quantity)

\* Mutant of printable: records of quantity 0 are kept.
printableOrZero(label) == ~NumberLess(label.quantity, IntegerNumber(0))

\* labels.filter(label => label.quantity > 0)
printable(label) == NumberLess(IntegerNumber(0), label.quantity)

\* The array blocks after the forEach.
blocks(currentLabels) ==
    LET kept == SelectSeq(currentLabels, printable)
    IN  [k \in 1..Len(kept) |-> labelBlock(kept[k])]

\* Mutant of fileContent: the lines are joined by a line feed alone.
fileContentLineFeed(currentLabels) == join(header \o blocks(currentLabels), <<NL>>)

fileContent(currentLabels) == join(header \o blocks(currentLabels), CRLF)

\* Mutant of handleDownloadTxt: without setError(null).
handleDownloadTxtKeepingError ==
    /\ Len(labels) > 0
    /\ success' = Downloaded
    /\ document' = fileContent(labels)
    /\ UNCHANGED <<labels, error, now, splitCall, build>>

handleDownloadTxt ==
    /\ Len(labels) > 0
    /\ error' = NULL
    /\ success' = Downloaded
    /\ document' = fileContent(labels)
    /\ UNCHANGED <<labels, now, splitCall, build>>

\* labels.reduce((sum, label) => sum + label.quantity, 0), the total on the
\* download button: the quantities are added one by one from the left, each
\* sum rounded to a double.
RECURSIVE totalFrom(_, _, _)
totalFrom(currentLabels, k, sum) ==
    IF k > Len(currentLabels) THEN sum
    ELSE The({totalFrom(currentLabels, k + 1, next) :
                 next \in {NumberAdd(sum, currentLabels[k].quantity)}})

totalLabelsToPrint(currentLabels) == totalFrom(currentLabels, 1, IntegerNumber(0))

clearAll ==
    /\ Len(labels) > 0
    /\ labels' = <<>>
    /\ error' = NULL
    /\ success' = NULL
    /\ document' = NoDocument
    /\ UNCHANGED <<now, splitCall, build>>

\* The onAdd the application hands to AddLabelModal.  The list takes a
\* finite number of MaxQuantityDigits digits before the point at most.
onAdd(data) ==
    /\ Len(labels) < MaxLabels
    /\ ~data.quantity.inf
    /\ Len(data.quantity.int) <= MaxQuantityDigits
    /\ labels' = labels \o <<[id |-> manualId(now), code |-> data.code,
                              description |-> data.description,
                              quantity |-> data.quantity]>>
    /\ success' = NULL
    /\ document' = NoDocument
    /\ UNCHANGED <<error, now, splitCall, build>>

\* AddLabelModal: handleAdd with the dialog's state code, description and
\* quantity, the last a number as Number() has read it from the field. A
\* refused entry changes the dialog only.
handleAdd(code, description, quantity) ==
    IF Trim(code) = <<>> \/ Trim(description) = <<>>
    THEN UNCHANGED vars
    ELSE IF NumberLess(quantity, IntegerNumber(0)) \/ quantity.nan
    THEN UNCHANGED vars
    ELSE onAdd([code |-> Trim(code), description |-> Trim(description),
                quantity |-> quantity])

\* Time passes: Date.now() never decreases.
Tick ==
    /\ now < MaxClock
    /\ now' = now + 1
    /\ UNCHANGED <<labels, error, success, document, splitCall, build>>

\* The application as it is mounted.
Mounted ==
    /\ labels = <<>>
    /\ error = NULL
    /\ success = NULL
    /\ now = 0
    /\ document = NoDocument
    /\ splitCall = NoCall

Init == Mounted /\ build = "lenient"

Next ==
    \/ handleInputChange
    \/ \E value \in PasteTexts : handleProcessData(value)
    \/ \E k \in 1..Len(labels) : handleRemoveLabel(labels[k].id)
    \/ \E k \in 1..Len(labels), value \in QuantityInputs :
           onQuantityInput(labels[k], value)
    \/ handleDownloadTxt
    \/ clearAll
    \/ \E code \in ManualCodes, description \in ManualDescriptions,
          quantity \in ManualNumbers :
           handleAdd(code, description, quantity)
    \/ Tick

Spec == Init /\ [][Next]_vars

-----------------------------------------------------------------------------
(* The strict build: src/unnamed/part_000. Its handleInputChange,          *)
(* handleRemoveLabel, handleQuantityChange, clearAll and the messages of   *)
(* handleDownloadTxt are those of the lenient build, line for line; it has *)
(* no manual entry.                                                        *)

\* Mutant of rowLabelStrict: quantity >= 0 in place of quantity > 0.
rowLabelStrictZero(rowStr, index, codeIndex, descIndex, qtyIndex, t) ==
    LET columns == MapTrim(Split(rowStr, TAB))
    IN  IF Len(columns) > Max3(codeIndex, descIndex, qtyIndex)
        THEN LET code == columns[codeIndex + 1]
                 description == sanitizeString(columns[descIndex + 1])
                 quantityStr == columns[qtyIndex + 1]
                 quantity == parseInt(quantityStr)
             IN  IF code # <<>> /\ description # <<>> /\ quantityStr # <<>>
                 THEN IF ~quantity.nan /\ ~NumberLess(quantity, IntegerNumber(0))
                      THEN <<[id |-> labelId(t, index), code |-> code,
                              description |-> description,
                              quantity |-> quantity]>>
                      ELSE <<>>
                 ELSE <<>>
        ELSE <<>>

\* The body of dataRows.forEach for one row: the records it pushes (none or
\* one).
rowLabelStrict(rowStr, index, codeIndex, descIndex, qtyIndex, t) ==
    LET columns == MapTrim(Split(rowStr, TAB))
    IN  IF Len(columns) > Max3(codeIndex, descIndex, qtyIndex)
        THEN LET code == columns[codeIndex + 1]
                 description == sanitizeString(columns[descIndex + 1])
                 quantityStr == columns[qtyIndex + 1]
                 quantity == parseInt(quantityStr)
             IN  IF code # <<>> /\ description # <<>> /\ quantityStr # <<>>
                 THEN IF ~quantity.nan /\ NumberLess(IntegerNumber(0), quantity)
                      THEN <<[id |-> labelId(t, index), code |-> code,
                              description |-> description,
                              quantity |-> quantity]>>
                      ELSE <<>>
                 ELSE <<>>
        ELSE <<>>

RECURSIVE forEachRowStrict(_, _, _, _, _, _)
forEachRowStrict(dataRows, index, codeIndex, descIndex, qtyIndex, times) ==
    IF index >= Len(dataRows) THEN <<>>
    ELSE rowLabelStrict(dataRows[index + 1], index, codeIndex, descIndex, qtyIndex,
                        times[index + 1])
         \o forEachRowStrict(dataRows, index + 1, codeIndex, descIndex, qtyIndex, times)

processDataStrict(value, times) ==
    LET text == Trim(value)
        rows == nonEmptyRows(text)
        headers == headersOf(rows[1])
        codeIndex == indexOf(headers, CODE_HEADER)
        descIndex == indexOf(headers, DESC_HEADER)
        qtyIndex == indexOf(headers, QTY_HEADER)
        missing == missingHeader(codeIndex, descIndex, qtyIndex)
        dataRows == Tail(rows)
        newLabels == forEachRowStrict(dataRows, 0, codeIndex, descIndex, qtyIndex, times)
    IN  IF value = <<>> \/ text = <<>>
        THEN [error |-> NULL, newLabels |-> <<>>]
        ELSE IF tooFewRows(rows)
        THEN [error |-> InsufficientRows, newLabels |-> <<>>]
        ELSE IF missing # NULL
        THEN [error |-> MissingColumn(missing), newLabels |-> <<>>]
        ELSE IF Len(newLabels) > 0
        THEN [error |-> NULL, newLabels |-> newLabels]
        ELSE [error |-> NoValidRows, newLabels |-> <<>>]

ProcessTableStrict ==
    { <<call[1], call[2], processDataStrict(call[1], call[2])>> : call \in ProcessCalls }

processedStrict(value, times) ==
    IF value \in PasteTexts \cup MarkedTexts
    THEN (CHOOSE e \in ProcessTableStrict : e[1] = value /\ e[2] = times)[3]
    ELSE processDataStrict(value, times)

handleProcessDataStrict(value) ==
    \E times \in ClockReadings(now, rowsCounted(value)) :
        LET done == processedStrict(value, times)
        IN  IF Len(done.newLabels) > 0
            THEN /\ Len(labels) + Len(done.newLabels) <= MaxLabels
                 /\ labels' = appendLabels(labels, done.newLabels)
                 /\ error' = NULL
                 /\ success' = Processed
                 /\ document' = NoDocument
                 /\ now' = clockAfter(now, times)
                 /\ UNCHANGED <<splitCall, build>>
            ELSE /\ error' = done.error
                 /\ success' = NULL
                 /\ document' = NoDocument
                 /\ now' = clockAfter(now, times)
                 /\ UNCHANGED <<labels, splitCall, build>>

\* The printer file of the strict build: three labels across, and a record
\* of quantity q as q - 1 copies of the triple label and one single label.

headerStrict ==
    << command(SI \o Chars("g1,420")),
       command(SI \o Chars("d5")),
       command(SI \o Chars("s50")),
       command(ESC \o Chars("P;")),
       command(Chars("E1,1;A1,ETIQ2J;")),
       command(Chars("L39;D0;")),
       command(Chars("B0,BR0;o60,210;f1;c6,0;h50;w1;r0;i1;d0,12")),
       command(Chars("B1,BR1;o60,480;f1;c6,0;h50;w1;r0;i1;d0,12")),
       command(Chars("B2,BR2;o60,730;f1;c6,0;h50;w1;r0;i1;d0,12")),
       command(Chars("H3,TX3;o10,260;f1;c25;h8;w7;d0,25;")),
       command(Chars("H4,TX4;o30,260;f1;c25;h8;w7;d0,25;")),
       command(Chars("H5,TX5;o10,530;f1;c25;h8;w7;d0,25;")),
       command(Chars("H6,TX6;o30,530;f1;c25;h8;w7;d0,25;")),
       command(Chars("H7,TX7;o10,790;f1;c25;h8;w7;d0,25;")),
       command(Chars("H8,TX8;o30,790;f1;c25;h8;w7;d0,25;")),
       command(Chars("I0;o110,220;f1;c25;h12;w12;")),
       command(Chars("I1;o110,490;f1;c25;h12;w12;")),
       command(Chars("I2;o110,740;f1;c25;h12;w12;")),
       command(Chars("R")),
       <<>> >>

\* Mutant of buildMainBlock: the third text pair is given to a field TX9.
buildMainBlockWrongField(code, line1, line2, qty) ==
    command(ESC \o Chars("E1") \o CAN) \o CRLF
    \o assign("BR0", code) \o CRLF
    \o assign("BR1", code) \o CRLF
    \o assign("BR2", code) \o CRLF
    \o assign("TX3", line1) \o CRLF
    \o assign("TX4", line2) \o CRLF
    \o assign("TX5", line1) \o CRLF
    \o assign("TX6", line2) \o CRLF
    \o assign("TX7", line1) \o CRLF
    \o assign("TX9", line2) \o CRLF
    \o command(US \o numberToString(qty)) \o CRLF
    \o command(ETB) \o CRLF

buildMainBlock(code, line1, line2, qty) ==
    command(ESC \o Chars("E1") \o CAN) \o CRLF
    \o assign("BR0", code) \o CRLF
    \o assign("BR1", code) \o CRLF
    \o assign("BR2", code) \o CRLF
    \o assign("TX3", line1) \o CRLF
    \o assign("TX4", line2) \o CRLF
    \o assign("TX5", line1) \o CRLF
    \o assign("TX6", line2) \o CRLF
    \o assign("TX7", line1) \o CRLF
    \o assign("TX8", line2) \o CRLF
    \o command(US \o numberToString(qty)) \o CRLF
    \o command(ETB) \o CRLF

buildResidualBlock(code, line1, line2) ==
    command(ESC \o Chars("E1") \o CAN) \o CRLF
    \o assign("BR0", code) \o CRLF
    \o assign("TX3", line1) \o CRLF
    \o assign("TX4", line2) \o CRLF
    \o command(US \o Chars("1")) \o CRLF
    \o command(ETB) \o CRLF

\* Mutant of labelBlocksStrict: the main block asks for all qty copies.
labelBlocksStrictFull(label) ==
    LET lines == splitDescription(label.description, DefaultMaxLength)
        qty == label.quantity
    IN  IF NumberLess(IntegerNumber(1), qty)
        THEN << buildMainBlock(label.code, lines[1], lines[2], qty),
                buildResidualBlock(label.code, lines[1], lines[2]) >>
        ELSE IF ~qty.nan /\ qty = IntegerNumber(1)
        THEN << buildMainBlock(label.code, lines[1], lines[2], IntegerNumber(1)) >>
        ELSE <<>>

\* What the forEach pushes for one record.
labelBlocksStrict(label) ==
    LET lines == splitDescription(label.description, DefaultMaxLength)
        qty == label.quantity
    IN  IF NumberLess(IntegerNumber(1), qty)
        THEN << buildMainBlock(label.code, lines[1], lines[2], NumberAdd(qty, IntegerNumber(-1))),
                buildResidualBlock(label.code, lines[1], lines[2]) >>
        ELSE IF ~qty.nan /\ qty = IntegerNumber(1)
        THEN << buildMainBlock(label.code, lines[1], lines[2], IntegerNumber(1)) >>
        ELSE <<>>

RECURSIVE blocksStrict(_)
blocksStrict(currentLabels) ==
    IF currentLabels = <<>> THEN <<>>
    ELSE labelBlocksStrict(Head(currentLabels)) \o blocksStrict(Tail(currentLabels))

fileContentStrict(currentLabels) ==
    join(headerStrict \o blocksStrict(currentLabels), CRLF)

handleDownloadTxtStrict ==
    /\ Len(labels) > 0
    /\ error' = NULL
    /\ success' = Downloaded
    /\ document' = fileContentStrict(labels)
    /\ UNCHANGED <<labels, now, splitCall, build>>

NextStrict ==
    \/ handleInputChange
    \/ \E value \in PasteTexts : handleProcessDataStrict(value)
    \/ \E k \in 1..Len(labels) : handleRemoveLabel(labels[k].id)
    \/ \E k \in 1..Len(labels), value \in QuantityInputs :
           onQuantityInput(labels[k], value)
    \/ handleDownloadTxtStrict
    \/ clearAll
    \/ Tick

InitStrict == Mounted /\ build = "strict"

SpecStrict == InitStrict /\ [][NextStrict]_vars

-----------------------------------------------------------------------------
(* The raw build: src/App.tsx:486-817. It parses as the strict build does, *)
(* has no quantity edit and no manual entry, and writes the control        *)
(* characters themselves, the commands one after the other.                *)


commandRaw(body) == <<RawSTX>> \o body \o <<RawETX>>

assignRaw(field, value) ==
    commandRaw(<<RawESC>> \o Chars("F\"") \o Chars(field) \o Chars("\"") \o <<RawLF>> \o value)

\* The commands pushed before the records are read.
headerRaw ==
    << commandRaw(Chars("SIg1,420")),
       commandRaw(Chars("SId5")),
       commandRaw(Chars("SIs50")),
       commandRaw(<<RawESC>> \o Chars("P;")),
       commandRaw(Chars("E1,1;A1,ETIQ2J;")),
       commandRaw(Chars("L39;D0;")),
       commandRaw(Chars("B0,BR0;o60,210;f1;c6,0;h50;w1;r0;i1;d0,12")),
       commandRaw(Chars("B1,BR1;o60,480;f1;c6,0;h50;w1;r0;i1;d0,12")),
       commandRaw(Chars("B2,BR2;o60,730;f1;c6,0;h50;w1;r0;i1;d0,12")),
       commandRaw(Chars("H3,TX3;o10,260;f1;c25;h8;w7;d0,25;")),
       commandRaw(Chars("H4,TX4;o30,260;f1;c25;h8;w7;d0,25;")),
       commandRaw(Chars("H5,TX5;o10,530;f1;c25;h8;w7;d0,25;")),
       commandRaw(Chars("H6,TX6;o30,530;f1;c25;h8;w7;d0,25;")),
       commandRaw(Chars("H7,TX7;o10,790;f1;c25;h8;w7;d0,25;")),
       commandRaw(Chars("H8,TX8;o30,790;f1;c25;h8;w7;d0,25;")),
       commandRaw(Chars("I0;o110,220;f1;c25;h12;w12;")),
       commandRaw(Chars("I1;o110,490;f1;c25;h12;w12;")),
       commandRaw(Chars("I2;o110,740;f1;c25;h12;w12;")),
       commandRaw(Chars("R")) >>

\* The string pushed for one record.
labelBlockRaw(label) ==
    LET lines == splitDescription(label.description, DefaultMaxLength)
    IN  commandRaw(<<RawESC>> \o Chars("E1") \o <<RawCAN>>)
        \o assignRaw("BR0", label.code)
        \o assignRaw("BR1", label.code)
        \o assignRaw("BR2", label.code)
        \o assignRaw("TX3", lines[1])
        \o assignRaw("TX4", lines[2])
        \o assignRaw("TX5", lines[1])
        \o assignRaw("TX6", lines[2])
        \o assignRaw("TX7", lines[1])
        \o assignRaw("TX8", lines[2])
        \o commandRaw(<<RawUS>> \o numberToString(label.quantity))
        \o commandRaw(<<RawETB>>)

fileContentRaw(currentLabels) ==
    join(headerRaw \o [k \in 1..Len(currentLabels) |-> labelBlockRaw(currentLabels[k])],
         <<>>)

handleDownloadTxtRaw ==
    /\ Len(labels) > 0
    /\ error' = NULL
    /\ success' = Downloaded
    /\ document' = fileContentRaw(labels)
    /\ UNCHANGED <<labels, now, splitCall, build>>

NextRaw ==
    \/ handleInputChange
    \/ \E value \in PasteTexts : handleProcessDataStrict(value)
    \/ \E k \in 1..Len(labels) : handleRemoveLabel(labels[k].id)
    \/ handleDownloadTxtRaw
    \/ clearAll
    \/ Tick

InitRaw == Mounted /\ build = "raw"

SpecRaw == InitRaw /\ [][NextRaw]_vars

-----------------------------------------------------------------------------
(* The three builds side by side: one of them is mounted and runs.         *)

Builds == {"lenient", "strict", "raw"}

InitBuilds == Mounted /\ build \in Builds

\* Next, NextStrict or NextRaw according to the build that is mounted: each
\* handler is enabled in the builds that have it.
NextBuilds ==
    \/ handleInputChange
    \/ \E value \in PasteTexts :
           \/ build = "lenient" /\ handleProcessData(value)
           \/ build # "lenient" /\ handleProcessDataStrict(value)
    \/ \E k \in 1..Len(labels) : handleRemoveLabel(labels[k].id)
    \/ \E k \in 1..Len(labels), value \in QuantityInputs :
           build # "raw" /\ onQuantityInput(labels[k], value)
    \/ build = "lenient" /\ handleDownloadTxt
    \/ build = "strict" /\ handleDownloadTxtStrict
    \/ build = "raw" /\ handleDownloadTxtRaw
    \/ clearAll
    \/ \E code \in ManualCodes, description \in ManualDescriptions,
          quantity \in ManualNumbers :
           build = "lenient" /\ handleAdd(code, description, quantity)
    \/ Tick

SpecBuilds == InitBuilds /\ [][NextBuilds]_vars

-----------------------------------------------------------------------------
(* The builds on values that carry a marker of the printer commands: the   *)
(* text the lenient and the strict build write for it ("<ETX>") or the     *)
(* control character the third build writes (U+0003).                      *)

NextMarkers ==
    \/ handleInputChange
    \/ \E value \in MarkedTexts :
           \/ build = "lenient" /\ handleProcessData(value)
           \/ build # "lenient" /\ handleProcessDataStrict(value)
    \/ \E description \in MarkedDescriptions :
           build = "lenient" /\ handleAdd(<<"9">>, description, IntegerNumber(2))
    \/ \E k \in 1..Len(labels) : handleRemoveLabel(labels[k].id)
    \/ \E k \in 1..Len(labels), value \in QuantityInputs :
           build # "raw" /\ onQuantityInput(labels[k], value)
    \/ build = "lenient" /\ handleDownloadTxt
    \/ build = "strict" /\ handleDownloadTxtStrict
    \/ build = "raw" /\ handleDownloadTxtRaw
    \/ clearAll
    \/ Tick

SpecMarkers == InitBuilds /\ [][NextMarkers]_vars

-----------------------------------------------------------------------------
(* splitDescription on its own: every description of SplitDescriptions     *)
(* with every length of SplitLengths.                                      *)

MaxShort == 3
MaxWord == 26

Rep(c, n) == [k \in 1..n |-> c]

\* Every description of at most MaxShort characters over a letter, the
\* space and the no-break space.
ShortDescriptions == UNION { [1..n -> {"a", SP, NBSP}] : n \in 0..MaxShort }

\* Descriptions around the default length: a word of MaxWord - 4 to MaxWord
\* letters, after a space or not, then a gap and a second word or nothing.
LongDescriptions ==
    { lead \o Rep("a", n) \o gap \o tail :
        lead \in {<<>>, <<SP>>},
        n \in (MaxWord - 4)..MaxWord,
        gap \in {<<>>, <<SP>>, <<SP, SP>>, <<NBSP>>, <<SP, "c", SP>>},
        tail \in {<<>>, <<"b", "b", "b">>} }
    \cup { <<"a", SP>> \o Rep("a", n) : n \in (MaxWord - 4)..MaxWord }

SplitDescriptions == ShortDescriptions \cup LongDescriptions

SplitLengths == {1, 2, 3, DefaultMaxLength}

InitSplit ==
    /\ labels = <<>>
    /\ error = NULL
    /\ success = NULL
    /\ now = 0
    /\ document = NoDocument
    /\ build = "lenient"
    /\ splitCall \in [description : SplitDescriptions, maxLength : SplitLengths,
                      returned : {FALSE}, lines : {<<>>}]

\* The call returns its two lines.
callSplitDescription ==
    /\ ~splitCall.returned
    /\ splitCall' = [splitCall EXCEPT
                        !.returned = TRUE,
                        !.lines = splitDescription(splitCall.description,
                                                   splitCall.maxLength)]
    /\ UNCHANGED <<labels, error, success, now, document, build>>

NextSplit == callSplitDescription

SpecSplit == InitSplit /\ [][NextSplit]_vars

-----------------------------------------------------------------------------
(* Vocabulary of the properties: what a pasted text says, read off the     *)
(* text itself.                                                            *)

Range(seq) == { seq[k] : k \in 1..Len(seq) }

RECURSIVE Concat(_)
Concat(seqs) == IF seqs = <<>> THEN <<>> ELSE Head(seqs) \o Concat(Tail(seqs))

\* The lines of a text that are not empty after trimming.
NonBlankLines(value) == SelectSeq(Split(value, NL), NotBlank)

\* The trimmed cells of one line.
Cells(line) == MapTrim(Split(line, TAB))

HasAllHeaders(cells) == {CODE_HEADER, DESC_HEADER, QTY_HEADER} \subseteq Range(cells)

\* The first of the three headers, in the order code, description,
\* quantity, that is not among cells.
FirstMissingHeader(cells) ==
    IF CODE_HEADER \notin Range(cells) THEN CODE_HEADER
    ELSE IF DESC_HEADER \notin Range(cells) THEN DESC_HEADER
    ELSE QTY_HEADER

\* The position (from 1) at which header h first stands among cells.
Position(cells, h) ==
    CHOOSE k \in 1..Len(cells) : cells[k] = h /\ \A j \in 1..(k - 1) : cells[j] # h

WithoutZeroWidth(str) ==
    SelectSeq(str, LAMBDA c : c \notin {"U+200B", "U+200C", "U+200D", "U+FEFF"})

\* The texts with fewer than two non-blank lines, and the others.
FewLineTexts == { v \in PasteTexts : Len(NonBlankLines(v)) < 2 }
TableTexts == PasteTexts \ FewLineTexts

\* The tables whose header line lacks a required header, and the others.
LackingHeaderTexts ==
    { v \in TableTexts : ~HasAllHeaders(Cells(NonBlankLines(v)[1])) }
CompleteTables == TableTexts \ LackingHeaderTexts

\* The lines handleProcessData works on: those of the trimmed text.
RowsSeen(value) == NonBlankLines(Trim(value))

\* The integer part of a number as an integer, for the numbers of the
\* list, which have MaxQuantityDigits digits before the point at most.
IntegerOf(x) ==
    LET n == DigitsValue(DigitChars(x.int), 0)
    IN  IF x.neg THEN 0 - n ELSE n

\* x > 0 and x >= n for a number x and an integer n.
Positive(x) == NumberLess(IntegerNumber(0), x)
AtLeast(x, n) == ~x.nan /\ ~NumberLess(x, IntegerNumber(n))

\* code, description and quantity of a record, without its id.
Fields(l) == <<l.code, l.description, l.quantity>>

\* The records a step has put behind the old list.
Added(old, new) ==
    [k \in 1..(Len(new) - Len(old)) |-> Fields(new[Len(old) + k])]

-----------------------------------------------------------------------------
(* C1 *)

\* C1 as claimed: for every pasted text with fewer than two lines that are
\* non-empty after trimming, empty and white-space-only text included,
\* handleProcessData ends with the insufficient-rows error reported and adds
\* no record.
C1_AlwaysInsufficientRows ==
    [][\A value \in FewLineTexts :
          handleProcessData(value) =>
              (error' = InsufficientRows /\ labels' = labels)]_vars

\* C1 as amended: a text that is not empty after trimming and has fewer than
\* two non-blank lines ends with the insufficient-rows error; an empty or
\* white-space-only text ends with no error at all; neither adds a record
\* nor sets the success message.
C1_InsufficientRows ==
    [][\A value \in FewLineTexts :
          handleProcessData(value) =>
              /\ labels' = labels
              /\ success' = NULL
              /\ error' = IF Trim(value) = <<>> THEN NULL ELSE InsufficientRows]_vars

\* The insufficient-rows error is on display over a list that holds records.
C1_Witness == error = InsufficientRows /\ Len(labels) > 0

-----------------------------------------------------------------------------
(* C2 *)

\* C2: when the header row lacks one or more of the three required headers,
\* handleProcessData reports the missing-column error that names the first
\* missing header in the order code, description, quantity, and the list is
\* left as it was, whatever the data rows hold.
C2_FirstMissingColumn ==
    [][\A value \in LackingHeaderTexts :
          handleProcessData(value) =>
              /\ error' = MissingColumn(FirstMissingHeader(Cells(NonBlankLines(value)[1])))
              /\ labels' = labels]_vars

\* A header row without description and without quantity has been reported
\* as lacking the description.
C2_Witness == error = MissingColumn(DESC_HEADER) /\ Len(labels) > 0

-----------------------------------------------------------------------------
(* C3 *)

\* Whether the lenient parser has a record for a row of these cells: enough
\* cells, a code, a description once the zero-width characters are gone.
\* ci, di, qi are the positions (from 1) of the three columns.
LenientRowValid(cells, ci, di, qi) ==
    /\ Len(cells) >= Max3(ci, di, qi)
    /\ cells[ci] # <<>>
    /\ WithoutZeroWidth(cells[di]) # <<>>

\* The complete tables none of whose data rows has a record.
NoValidRowTexts ==
    { v \in CompleteTables :
        LET rows == RowsSeen(v)
            head == Cells(rows[1])
        IN  \A k \in 2..Len(rows) :
               ~LenientRowValid(Cells(rows[k]), Position(head, CODE_HEADER),
                                Position(head, DESC_HEADER), Position(head, QTY_HEADER)) }

\* C3: when the input has at least two non-empty lines and all three headers
\* but no data row yields a valid record, handleProcessData reports the
\* no-valid-rows error and the label list is the list before the call.
C3_NoValidRows ==
    [][\A value \in NoValidRowTexts :
          handleProcessData(value) =>
              (error' = NoValidRows /\ labels' = labels)]_vars

\* The no-valid-rows error is on display over a list that holds records.
C3_Witness == error = NoValidRows /\ Len(labels) > 0

-----------------------------------------------------------------------------
(* C4 *)

\* An optional sign and then digits only, at least one.
IsDecimalInteger(str) ==
    LET body == IF str # <<>> /\ Head(str) \in {"+", "-"} THEN Tail(str) ELSE str
    IN  body # <<>> /\ Range(body) \subseteq Digits

\* C4 as claimed, for one row: a record if and only if the row has more
\* fields than the highest column index, its code and description fields are
\* non-empty and its quantity field is a base-10 integer above zero; the
\* record carries that code, that description and that integer.
StrictRowAsClaimed(cells, ci, di, qi) ==
    IF /\ Len(cells) >= Max3(ci, di, qi)
       /\ cells[ci] # <<>>
       /\ cells[di] # <<>>
       /\ IsDecimalInteger(cells[qi])
       /\ Positive(parseInt(cells[qi]))
    THEN << <<cells[ci], cells[di], parseInt(cells[qi])>> >>
    ELSE <<>>

\* C4 as amended, for one row: the description counts, and is stored, with
\* its zero-width characters removed, and the quantity is what parseInt
\* reads at the start of the field (an optional sign and the longest run of
\* digits), whatever follows it.
StrictRowAmended(cells, ci, di, qi) ==
    IF /\ Len(cells) >= Max3(ci, di, qi)
       /\ cells[ci] # <<>>
       /\ WithoutZeroWidth(cells[di]) # <<>>
       /\ ~parseInt(cells[qi]).nan
       /\ Positive(parseInt(cells[qi]))
    THEN << <<cells[ci], WithoutZeroWidth(cells[di]), parseInt(cells[qi])>> >>
    ELSE <<>>

StrictAsClaimed ==
    [v \in CompleteTables |->
        LET rows == RowsSeen(v)
            head == Cells(rows[1])
        IN  Concat([k \in 1..(Len(rows) - 1) |->
                StrictRowAsClaimed(Cells(rows[k + 1]), Position(head, CODE_HEADER),
                                   Position(head, DESC_HEADER), Position(head, QTY_HEADER))])]

StrictAmended ==
    [v \in CompleteTables |->
        LET rows == RowsSeen(v)
            head == Cells(rows[1])
        IN  Concat([k \in 1..(Len(rows) - 1) |->
                StrictRowAmended(Cells(rows[k + 1]), Position(head, CODE_HEADER),
                                 Position(head, DESC_HEADER), Position(head, QTY_HEADER))])]

\* C4 as claimed: the strict parser adds the records of exactly the rows
\* that have enough fields, a non-empty code and description field and a
\* quantity field that is a base-10 integer above zero, with the fields as
\* they stand in the row.
C4_StrictRowsAsClaimed ==
    [][\A value \in CompleteTables :
          handleProcessDataStrict(value) =>
              Added(labels, labels') = StrictAsClaimed[value]]_vars

\* C4 as amended: the strict parser adds the records of exactly the rows
\* that have enough fields, a non-empty code field, a description field that
\* is non-empty once its zero-width characters are removed and a quantity
\* field at whose start parseInt reads an integer above zero; each record
\* carries the code, the description without zero-width characters and that
\* integer.
C4_StrictRows ==
    [][\A value \in CompleteTables :
          handleProcessDataStrict(value) =>
              Added(labels, labels') = StrictAmended[value]]_vars

\* The strict parser has stored the record of the row whose quantity field
\* is "2x".
C4_Witness ==
    \E k \in 1..Len(labels) : labels[k].quantity = IntegerNumber(2) /\ labels[k].id[1] = "label"

-----------------------------------------------------------------------------
(* C5 *)

\* C5 for one row of the pasted text: a record whenever the code and the
\* description are present, its quantity 0 when the quantity field is
\* missing or non-numeric and the parsed integer otherwise.
LenientRowAsClaimed(cells, ci, di, qi) ==
    IF /\ Len(cells) >= ci
       /\ Len(cells) >= di
       /\ cells[ci] # <<>>
       /\ WithoutZeroWidth(cells[di]) # <<>>
    THEN << <<cells[ci], WithoutZeroWidth(cells[di]),
              IF Len(cells) < qi \/ parseInt(cells[qi]).nan
              THEN IntegerNumber(0)
              ELSE parseInt(cells[qi])>> >>
    ELSE <<>>

\* The rows are those of the text as pasted: wherever a row stands, its
\* cells are the ones between its tabs.
LenientAsClaimed ==
    [v \in CompleteTables |->
        LET rows == NonBlankLines(v)
            head == Cells(rows[1])
        IN  Concat([k \in 1..(Len(rows) - 1) |->
                LenientRowAsClaimed(Cells(rows[k + 1]), Position(head, CODE_HEADER),
                                    Position(head, DESC_HEADER), Position(head, QTY_HEADER))])]

\* C5: in the lenient build every data row whose code and description are
\* present produces a record, wherever the row stands in the input, with
\* quantity 0 for a missing or non-numeric quantity field and the parsed
\* integer otherwise.
C5_LenientRows ==
    [][\A value \in CompleteTables :
          handleProcessData(value) =>
              Added(labels, labels') = LenientAsClaimed[value]]_vars

-----------------------------------------------------------------------------
(* C6 *)

\* The new records stand in the order of their rows: the row numbers in
\* their ids increase, and each carries the code of the row it names.
InRowOrder(value, old, new) ==
    LET dataRows == Tail(RowsSeen(value))
    IN  \A k \in (Len(old) + 1)..Len(new) :
           /\ new[k].id[3] < Len(dataRows)
           /\ new[k].code \in Range(Cells(dataRows[new[k].id[3] + 1]))
           /\ k > Len(old) + 1 => new[k - 1].id[3] < new[k].id[3]

\* C6: after a successful parse the label list is the list before the call
\* followed by the new records in input row order; the old records are
\* neither removed, reordered nor changed, and no new record precedes an old
\* one.
C6_AppendInRowOrder ==
    [][\A value \in PasteTexts :
          (success' = Processed /\ handleProcessData(value)) =>
              /\ Len(labels') > Len(labels)
              /\ SubSeq(labels', 1, Len(labels)) = labels
              /\ InRowOrder(value, labels, labels')]_vars

\* A parse has put its record behind a record entered by hand.
C6_Witness ==
    /\ success = Processed
    /\ Len(labels) = 2
    /\ labels[1].id[1] = "label-manual"
    /\ labels[2].id[1] = "label"

-----------------------------------------------------------------------------
(* C7 *)

\* C7: no two records of the label list have the same id.
C7_UniqueIds ==
    \A i, j \in 1..Len(labels) : i # j => labels[i].id # labels[j].id

-----------------------------------------------------------------------------
(* C8 *)

\* C8: in the lenient build every record of the label list has a quantity
\* that is an integer greater than or equal to 0.
C8_QuantityNonNegative ==
    \A k \in 1..Len(labels) :
        AtLeast(labels[k].quantity, 0) /\ labels[k].quantity.frac = <<>>

-----------------------------------------------------------------------------
(* C9 *)

\* C9: in the strict build every record of the label list has a quantity of
\* at least 1, in every reachable state.
C9_StrictQuantityPositive ==
    \A k \in 1..Len(labels) : AtLeast(labels[k].quantity, 1)

\* A quantity edit has stored 7, a quantity no pasted text holds.
C9_Witness == \E k \in 1..Len(labels) : labels[k].quantity = IntegerNumber(7)

-----------------------------------------------------------------------------
(* C10 *)

\* C10: no record of the label list, parsed or entered by hand, has a
\* description that contains U+200B, U+200C, U+200D or U+FEFF.
C10_NoZeroWidthInDescription ==
    \A k \in 1..Len(labels) :
        Range(labels[k].description) \cap {"U+200B", "U+200C", "U+200D", "U+FEFF"} = {}

-----------------------------------------------------------------------------
(* C11 *)

\* A record handleProcessData created: its id is built at the row.
IsParsed(l) == l.id[1] = "label"

\* C11: every record the parser created has a code and a stored description
\* that are non-empty and neither begin nor end with whitespace, also when
\* the pasted description holds zero-width characters next to spaces.
C11_ParsedFieldsTrimmed ==
    \A k \in 1..Len(labels) :
        IsParsed(labels[k]) =>
            /\ labels[k].code # <<>>
            /\ Trim(labels[k].code) = labels[k].code
            /\ labels[k].description # <<>>
            /\ Trim(labels[k].description) = labels[k].description

-----------------------------------------------------------------------------
(* C12 *)

\* The 0-based indexes in 1..m at which a space stands in t.
SpacesUpTo(t, m) == { i \in 1..Min(m, Len(t) - 1) : t[i + 1] = SP }

Greatest(S) == CHOOSE i \in S : \A j \in S : j <= i

\* The two halves of t around the character at 0-based index i, trimmed.
AroundTrimmed(t, i) == <<Trim(SubSeq(t, 1, i)), Trim(SubSeq(t, i + 2, Len(t)))>>

\* The cases of C12 that do not depend on how a word is cut: a trimmed
\* description of at most m characters is line1 with an empty line2, and a
\* longer one with a space at an index in 1..m is cut around the last such
\* space, both halves trimmed.
SplitsAtLastSpace(d, m, lines) ==
    LET t == Trim(d)
    IN  /\ Len(t) <= m => lines = <<t, <<>>>>
        /\ Len(t) > m /\ SpacesUpTo(t, m) # {} =>
               lines = AroundTrimmed(t, Greatest(SpacesUpTo(t, m)))

\* C12 as claimed: splitDescription(d, m) returns (trim(d), "") when
\* trim(d) has at most m characters; otherwise it cuts trim(d) around the
\* last space at an index in 1..m, and when there is no such space it cuts
\* at index m, so that line1 is the first m characters.
C12_SplitAsClaimed ==
    splitCall.returned =>
        LET d == splitCall.description
            m == splitCall.maxLength
            t == Trim(d)
        IN  /\ SplitsAtLastSpace(d, m, splitCall.lines)
            /\ Len(t) > m /\ SpacesUpTo(t, m) = {} =>
                   splitCall.lines[1] = SubSeq(t, 1, m)

\* C12 as amended: as claimed, except that when there is no such space the
\* cut at index m gives the first m characters and the rest, both trimmed.
C12_SplitRule ==
    splitCall.returned =>
        LET d == splitCall.description
            m == splitCall.maxLength
            t == Trim(d)
        IN  /\ SplitsAtLastSpace(d, m, splitCall.lines)
            /\ Len(t) > m /\ SpacesUpTo(t, m) = {} =>
                   splitCall.lines =
                       <<Trim(SubSeq(t, 1, m)), Trim(SubSeq(t, m + 1, Len(t)))>>

\* A description with spaces at the indexes 22 and 24 has been cut at the
\* second of them.
C12_Witness ==
    /\ splitCall.returned
    /\ splitCall.maxLength = 25
    /\ splitCall.description = Rep("a", 22) \o <<SP, "c", SP, "b", "b", "b">>
    /\ splitCall.lines = <<Rep("a", 22) \o <<SP, "c">>, <<"b", "b", "b">>>>

-----------------------------------------------------------------------------
(* C13 *)

\* t is line1, then the characters of between, then line2.
Reconstructs(t, lines, between) == lines[1] \o between \o lines[2] = t

\* The part of t between a beginning of length before and an end of length
\* after.
Middle(t, before, after) == SubSeq(t, before + 1, Len(t) - after)

\* C13 as claimed: the two lines of splitDescription(d, 25) give trim(d)
\* back, either set one after the other or with one space between them.
C13_ReconstructsAsClaimed ==
    splitCall.returned /\ splitCall.maxLength = 25 =>
        LET t == Trim(splitCall.description)
        IN  \/ Reconstructs(t, splitCall.lines, <<>>)
            \/ Reconstructs(t, splitCall.lines, <<SP>>)

\* C13 as amended: the two lines of splitDescription(d, 25) give trim(d)
\* back when the whitespace that stood around the cut is set between them:
\* trim(d) is line1, a run of whitespace characters (none, one or more),
\* line2.
C13_Reconstructs ==
    splitCall.returned /\ splitCall.maxLength = 25 =>
        LET t == Trim(splitCall.description)
            lines == splitCall.lines
        IN  /\ Len(lines[1]) + Len(lines[2]) <= Len(t)
            /\ Range(Middle(t, Len(lines[1]), Len(lines[2]))) \subseteq WhiteSpaceChars
            /\ Reconstructs(t, lines, Middle(t, Len(lines[1]), Len(lines[2])))

\* A description with two spaces at the cut has lost both.
C13_Witness ==
    /\ splitCall.returned
    /\ splitCall.maxLength = 25
    /\ splitCall.description = Rep("a", 24) \o <<SP, SP, "b", "b", "b">>
    /\ splitCall.lines = <<Rep("a", 24), <<"b", "b", "b">>>>

-----------------------------------------------------------------------------
(* C14 *)

\* C14: whenever splitDescription(d, 25) cuts at a space, that is, trim(d)
\* has more than 25 characters and a space at an index in 1..25, line1 has
\* at most 25 characters.
C14_Line1AtMost25 ==
    splitCall.returned /\ splitCall.maxLength = 25 =>
        LET t == Trim(splitCall.description)
        IN  Len(t) > 25 /\ SpacesUpTo(t, 25) # {} => Len(splitCall.lines[1]) <= 25

\* A description with its only space at index 25 has been cut there, into
\* a first line of exactly 25 characters.
C14_Witness ==
    /\ splitCall.returned
    /\ splitCall.maxLength = 25
    /\ splitCall.description = Rep("a", 25) \o <<SP, "b", "b", "b">>
    /\ Len(splitCall.lines[1]) = 25
    /\ splitCall.lines[2] = <<"b", "b", "b">>

-----------------------------------------------------------------------------
(* Vocabulary of the properties of the printer file: the commands and the  *)
(* blocks, read off the characters of the file.                            *)

\* The control characters as build b writes them.
Ctl(b) ==
    IF b = "raw"
    THEN [stx |-> <<RawSTX>>, etx |-> <<RawETX>>, esc |-> <<RawESC>>, lf |-> <<RawLF>>,
          us |-> <<RawUS>>, etb |-> <<RawETB>>, can |-> <<RawCAN>>]
    ELSE [stx |-> STX, etx |-> ETX, esc |-> ESC, lf |-> LF,
          us |-> US, etb |-> ETB, can |-> CAN]

\* token stands in str from position i on.
StandsAt(str, i, token) ==
    /\ i + Len(token) - 1 <= Len(str)
    /\ \A j \in 1..Len(token) : str[i + j - 1] = token[j]

PositionsOf(str, token) == { i \in 1..Len(str) : StandsAt(str, i, token) }

\* The numbers of a finite set, in increasing order.
RECURSIVE Sorted(_)
Sorted(S) ==
    IF S = {} THEN <<>>
    ELSE LET least == CHOOSE i \in S : \A j \in S : i <= j
         IN  <<least>> \o Sorted(S \ {least})

\* The file is commands and what stands between them: every STX has its
\* ETX before the next STX.
WellFormed(doc, b) ==
    LET starts == Sorted(PositionsOf(doc, Ctl(b).stx))
        ends == Sorted(PositionsOf(doc, Ctl(b).etx))
    IN  /\ Len(starts) = Len(ends)
        /\ \A k \in 1..Len(starts) :
               /\ starts[k] < ends[k]
               /\ k < Len(starts) => ends[k] < starts[k + 1]

\* What stands between STX and ETX, command by command.
Commands(doc, b) ==
    LET starts == Sorted(PositionsOf(doc, Ctl(b).stx))
        ends == Sorted(PositionsOf(doc, Ctl(b).etx))
    IN  [k \in 1..Len(starts) |->
            SubSeq(doc, starts[k] + Len(Ctl(b).stx), ends[k] - 1)]

HasPrefix(str, prefix) == StandsAt(str, 1, prefix)

After(str, prefix) == SubSeq(str, Len(prefix) + 1, Len(str))

\* The beginning of an assignment up to the name of its field, and the
\* three commands without a field.
AssignPrefix(b) == Ctl(b).esc \o <<"F", "\"">>
CancelCommand(b) == Ctl(b).esc \o <<"E", "1">> \o Ctl(b).can
EndCommand(b) == Ctl(b).etb

IsAssign(cmd, b) ==
    /\ HasPrefix(cmd, AssignPrefix(b))
    /\ StandsAt(cmd, Len(AssignPrefix(b)) + 4, <<"\"">> \o Ctl(b).lf)

\* The field an assignment names and the value it gives to it.
FieldOf(cmd, b) == SubSeq(cmd, Len(AssignPrefix(b)) + 1, Len(AssignPrefix(b)) + 3)
ValueOf(cmd, b) == After(cmd, AssignPrefix(b) \o FieldOf(cmd, b) \o <<"\"">> \o Ctl(b).lf)

IsQuantity(cmd, b) == HasPrefix(cmd, Ctl(b).us)

\* What a command is.
Kind(cmd, b) ==
    IF cmd = CancelCommand(b) THEN "cancel"
    ELSE IF cmd = EndCommand(b) THEN "end"
    ELSE IF IsQuantity(cmd, b) THEN "quantity"
    ELSE IF IsAssign(cmd, b) /\ SubSeq(FieldOf(cmd, b), 1, 2) = <<"B", "R">> THEN "barcode"
    ELSE IF IsAssign(cmd, b) /\ SubSeq(FieldOf(cmd, b), 1, 2) = <<"T", "X">> THEN "text"
    ELSE "other"

\* The commands of the file before its first block, and its blocks: a block
\* goes from a cancel command to the command before the next one.
HeaderCommands(cmds, b) ==
    LET cancels == { k \in 1..Len(cmds) : cmds[k] = CancelCommand(b) }
    IN  IF cancels = {} THEN cmds
        ELSE SubSeq(cmds, 1, Sorted(cancels)[1] - 1)

BlocksOf(cmds, b) ==
    LET cancels == Sorted({ k \in 1..Len(cmds) : cmds[k] = CancelCommand(b) })
    IN  [n \in 1..Len(cancels) |->
            SubSeq(cmds, cancels[n],
                   IF n < Len(cancels) THEN cancels[n + 1] - 1 ELSE Len(cmds))]

\* The blocks of the file of the last step.
FileBlocks == BlocksOf(Commands(document, build), build)

\* The commands of one kind in a block, in their order.
OfKind(block, kind, b) == SelectSeq(block, LAMBDA cmd : Kind(cmd, b) = kind)

\* The fields a block gives a value to.
FieldsAssigned(block, b) ==
    { FieldOf(block[k], b) : k \in { j \in 1..Len(block) : IsAssign(block[j], b) } }

\* The values a block gives to the fields of one kind, in their order.
ValuesOf(block, kind, b) ==
    LET cmds == OfKind(block, kind, b)
    IN  [k \in 1..Len(cmds) |-> ValueOf(cmds[k], b)]

\* The number the quantity directives of a block carry, in their order.
Copies(block, b) ==
    LET cmds == OfKind(block, "quantity", b)
    IN  [k \in 1..Len(cmds) |-> After(cmds[k], Ctl(b).us)]

\* The step has produced a file.
HasFile == document # NoDocument

-----------------------------------------------------------------------------
(* C15 *)

\* The header section of build b: its header commands, joined as the build
\* joins the parts of the file.
HeaderSection(b) ==
    IF b = "lenient" THEN join(header, CRLF)
    ELSE IF b = "strict" THEN join(headerStrict, CRLF)
    ELSE join(headerRaw, <<>>)

\* No record of the list is to be printed.
NothingToPrint ==
    \A k \in 1..Len(labels) : ~Positive(labels[k].quantity)

\* C15: the header section does not depend on the records: the file
\* generated for a list that yields no block is exactly the header section
\* of the build, and the file generated for any list begins with it.
C15_StaticHeader ==
    HasFile =>
        /\ HasPrefix(document, HeaderSection(build))
        /\ NothingToPrint => document = HeaderSection(build)

\* The lenient build has generated the file of a list whose only record has
\* quantity 0.
C15_Witness ==
    /\ HasFile
    /\ build = "lenient"
    /\ Len(labels) = 1
    /\ labels[1].quantity = IntegerNumber(0)
    /\ document = HeaderSection("lenient")

-----------------------------------------------------------------------------
(* C16 *)

\* The fraction of a number written in decimal: the digits after its
\* point, none when it has no point.
FractionIn(str) ==
    LET point == FindChar(str, ".", 1)
        after == IF point = 0 THEN <<>> ELSE DigitPrefix(SubSeq(str, point + 1, Len(str)))
    IN  [k \in 1..Len(after) |-> DigitValue(after[k])]

\* What a block says: the codes it gives to barcode fields, the lines it
\* gives to text fields and the numbers of copies it asks for (their
\* integer parts, and their fractions), each in the order of the block.
Says(block, b) ==
    LET copies == Copies(block, b)
    IN  [codes |-> ValuesOf(block, "barcode", b),
         texts |-> ValuesOf(block, "text", b),
         copies |-> [k \in 1..Len(copies) |-> IntegerOf(parseInt(copies[k]))],
         fractions |-> [k \in 1..Len(copies) |-> FractionIn(copies[k])]]

\* What the blocks of the file of the last step say, block by block.
FileSays ==
    LET fileBlocks == FileBlocks
    IN  [n \in 1..Len(fileBlocks) |-> Says(fileBlocks[n], build)]

\* A block for three labels across and a block for one, for a record and a
\* number of copies.
TripleBlock(l, copies) ==
    LET lines == splitDescription(l.description, 25)
    IN  [codes |-> <<l.code, l.code, l.code>>,
         texts |-> <<lines[1], lines[2], lines[1], lines[2], lines[1], lines[2]>>,
         copies |-> <<copies>>, fractions |-> << <<>> >>]

SingleBlock(l, copies) ==
    LET lines == splitDescription(l.description, 25)
    IN  [codes |-> <<l.code>>, texts |-> <<lines[1], lines[2]>>,
         copies |-> <<copies>>, fractions |-> << <<>> >>]

\* The split policy for one record.
SplitPolicy(l) ==
    IF IntegerOf(l.quantity) > 1
    THEN <<TripleBlock(l, IntegerOf(l.quantity) - 1), SingleBlock(l, 1)>>
    ELSE IF IntegerOf(l.quantity) = 1 THEN <<TripleBlock(l, 1)>>
    ELSE <<>>

\* C16: in the file of the strict build a record of quantity q > 1 stands
\* as two blocks, a main block of q - 1 copies and then a residual block of
\* one copy, both with the code and the two wrapped lines of the record, and
\* a record of quantity 1 as one main block of one copy; the blocks follow
\* the order of the list.
C16_SplitPolicy ==
    HasFile => FileSays = Concat([k \in 1..Len(labels) |-> SplitPolicy(labels[k])])

\* The file of a list of one record of quantity 3: a main block of 2 copies
\* and a residual block of 1.
C16_Witness ==
    /\ HasFile
    /\ Len(labels) = 1
    /\ labels[1].quantity = IntegerNumber(3)
    /\ Len(FileBlocks) = 2
    /\ FileSays[1].copies = <<2>>
    /\ FileSays[2].copies = <<1>>

-----------------------------------------------------------------------------
(* C17 *)

\* The records of quantity above 0, in the order of the list.
ToPrint(currentLabels) ==
    SelectSeq(currentLabels, LAMBDA l : Positive(l.quantity))

\* C17: the file of the lenient build has exactly one block for each record
\* of quantity above 0, in the order of the list, and the quantity directive
\* of the block carries the whole quantity of its record.
C17_ExactPolicy ==
    HasFile =>
        LET toPrint == ToPrint(labels)
        IN  FileSays = [k \in 1..Len(toPrint) |->
                           [SingleBlock(toPrint[k], IntegerOf(toPrint[k].quantity))
                                EXCEPT !.fractions = <<toPrint[k].quantity.frac>>]]

\* The file of a list of two records, the first of quantity 0 and the
\* second of quantity 3, has one block, of 3 copies.
C17_Witness ==
    /\ HasFile
    /\ Len(labels) = 2
    /\ labels[1].quantity = IntegerNumber(0)
    /\ labels[2].quantity = IntegerNumber(3)
    /\ Len(FileBlocks) = 1
    /\ FileSays[1].copies = <<3>>

-----------------------------------------------------------------------------
(* C18 *)

\* The block is that of record l: its code and its two wrapped lines.
BlockOf(said, l) ==
    LET lines == splitDescription(l.description, 25)
    IN  /\ Range(said.codes) = {l.code}
        /\ \A k \in 1..Len(said.texts) :
               said.texts[k] = IF k % 2 = 1 THEN lines[1] ELSE lines[2]

\* C18: in every build and in every state of the label list the generated
\* file has no block for a record of quantity 0 or less, and no quantity
\* directive of the file carries a value below 1.
C18_NoBlockBelowOne ==
    HasFile =>
        LET said == FileSays
        IN  \A n \in 1..Len(said) :
                /\ \E k \in 1..Len(labels) :
                       AtLeast(labels[k].quantity, 1) /\ BlockOf(said[n], labels[k])
                /\ \A k \in 1..Len(said[n].copies) : said[n].copies[k] >= 1

-----------------------------------------------------------------------------
(* C19 *)

\* What the commands of a block are, in their order.
KindsOf(block, b) == [k \in 1..Len(block) |-> Kind(block[k], b)]

\* cancel, one or more barcode assignments, one or more text assignments,
\* one quantity directive, end of block, and nothing else.
InBlockOrder(kinds) ==
    LET n == Len(kinds)
    IN  /\ n >= 5
        /\ kinds[1] = "cancel"
        /\ kinds[n - 1] = "quantity"
        /\ kinds[n] = "end"
        /\ \E last \in 2..(n - 3) :
               /\ \A k \in 2..last : kinds[k] = "barcode"
               /\ \A k \in (last + 1)..(n - 2) : kinds[k] = "text"

\* C19: every block of a generated file is, in this order, the cancel
\* command, the barcode assignments with the code of a record, the text
\* assignments with the two wrapped lines of that record, exactly one
\* quantity directive and the end-of-block command, and nothing after it.
C19_BlockOrder ==
    HasFile =>
        LET fileBlocks == FileBlocks
        IN  /\ WellFormed(document, build)
            /\ \A n \in 1..Len(fileBlocks) :
                   /\ InBlockOrder(KindsOf(fileBlocks[n], build))
                   /\ \E k \in 1..Len(labels) :
                          BlockOf(Says(fileBlocks[n], build), labels[k])

\* The strict build has generated a main block of twelve commands and a
\* residual block of six.
C19_Witness ==
    /\ HasFile
    /\ build = "strict"
    /\ Len(FileBlocks) = 2
    /\ Len(FileBlocks[1]) = 12
    /\ Len(FileBlocks[2]) = 6
    /\ InBlockOrder(KindsOf(FileBlocks[2], build))

-----------------------------------------------------------------------------
(* C20 *)

\* The fields the header of a file declares: the name in a command that
\* begins B0, ... or H3, ... .
DeclaredIn(cmds) ==
    { SubSeq(cmds[k], 4, 6) :
        k \in { j \in 1..Len(cmds) :
                  /\ Len(cmds[j]) >= 7
                  /\ cmds[j][1] \in {"B", "H"}
                  /\ cmds[j][2] \in Digits
                  /\ cmds[j][3] = ","
                  /\ cmds[j][7] = ";" } }

FileDeclares == DeclaredIn(HeaderCommands(Commands(document, build), build))

\* The assignments of a block, each a field and its value.
Assignments(block, b) ==
    { <<FieldOf(block[k], b), ValueOf(block[k], b)>> :
        k \in { j \in 1..Len(block) : IsAssign(block[j], b) } }

\* The assignments of the triple label of record l.
TripleAssignments(l) ==
    LET lines == splitDescription(l.description, 25)
    IN  { <<Chars("BR0"), l.code>>, <<Chars("BR1"), l.code>>, <<Chars("BR2"), l.code>>,
          <<Chars("TX3"), lines[1]>>, <<Chars("TX4"), lines[2]>>,
          <<Chars("TX5"), lines[1]>>, <<Chars("TX6"), lines[2]>>,
          <<Chars("TX7"), lines[1]>>, <<Chars("TX8"), lines[2]>> }

\* C20: every barcode or text field a block of a generated file assigns is
\* declared in the header of that file, and in the builds of the triple
\* layout every record has its main block, which gives the code to the
\* three barcode fields and the same two lines to the three pairs of text
\* fields.
C20_FieldsDeclared ==
    HasFile =>
        LET fileBlocks == FileBlocks
            declared == FileDeclares
        IN  /\ \A n \in 1..Len(fileBlocks) :
                   FieldsAssigned(fileBlocks[n], build) \subseteq declared
            /\ build \in {"strict", "raw"} =>
                   \A k \in 1..Len(labels) :
                       \E n \in 1..Len(fileBlocks) :
                           Assignments(fileBlocks[n], build) = TripleAssignments(labels[k])

\* The strict build has generated a file that declares nine fields and
\* whose first block assigns all nine.
C20_Witness ==
    /\ HasFile
    /\ build = "strict"
    /\ Cardinality(FileDeclares) = 9
    /\ Len(FileBlocks) >= 1
    /\ FieldsAssigned(FileBlocks[1], build) = FileDeclares

-----------------------------------------------------------------------------
(* C21, C22 *)

\* What stands in the file between the end of each command and the start
\* of the next one.
Gaps(doc, b) ==
    LET starts == Sorted(PositionsOf(doc, Ctl(b).stx))
        ends == Sorted(PositionsOf(doc, Ctl(b).etx))
    IN  [k \in 1..(Len(starts) - 1) |->
            SubSeq(doc, ends[k] + Len(Ctl(b).etx), starts[k + 1] - 1)]

\* C21: the file handed to the browser for download is in the wire format:
\* nothing stands between two consecutive commands and the file has no CR.
C21_WireFormat ==
    HasFile =>
        /\ \A i \in 1..Len(document) : document[i] # CR
        /\ LET gaps == Gaps(document, build)
           IN  \A k \in 1..Len(gaps) : gaps[k] = <<>>

\* C22: in a file generated with CRLF line termination, between every two
\* consecutive commands stands exactly one CR LF and nothing else.
C22_OneTerminator ==
    (HasFile /\ build \in {"lenient", "strict"}) =>
        LET gaps == Gaps(document, build)
        IN  \A k \in 1..Len(gaps) : gaps[k] = CRLF

-----------------------------------------------------------------------------
(* C23 *)

\* An id no record has: ids begin with "label" or "label-manual".
AbsentId == <<"absent">>

\* after is before with nothing changed but the quantity of the records
\* whose id is id.
QuantityFrame(before, after, id, qty) ==
    /\ Len(after) = Len(before)
    /\ \A k \in 1..Len(before) :
           /\ after[k].id = before[k].id
           /\ after[k].code = before[k].code
           /\ after[k].description = before[k].description
           /\ before[k].id # id => after[k] = before[k]
           /\ before[k].id = id => after[k].quantity = qty
    /\ (\A k \in 1..Len(before) : before[k].id # id) => after = before

\* C23: handleQuantityChange(id, q) changes nothing but the quantity of the
\* record with that id: ids, codes, descriptions, the records of other ids,
\* the length and the order of the list stay, and with an id no record has
\* the list stays as it is.
C23_QuantityChangeFrame ==
    [][/\ \A k \in 1..Len(labels), value \in QuantityInputs :
              handleQuantityChange(labels[k].id, parseInt(value)) =>
                  QuantityFrame(labels, labels', labels[k].id, parseInt(value))
       /\ \A value \in QuantityInputs :
              /\ withQuantity(labels, AbsentId, parseInt(value)) = labels
              /\ QuantityFrame(labels, withQuantity(labels, AbsentId, parseInt(value)),
                               AbsentId, parseInt(value))]_vars

\* The quantity of the first of two records of different ids has been
\* edited to 7, which no paste and no manual entry gives.
C23_Witness ==
    /\ Len(labels) = 2
    /\ labels[1].id # labels[2].id
    /\ labels[1].quantity = IntegerNumber(7)
    /\ labels[2].quantity # IntegerNumber(7)

-----------------------------------------------------------------------------
(* C24 *)

\* The list without its k-th record.
WithoutRecord(currentLabels, k) ==
    SubSeq(currentLabels, 1, k - 1) \o SubSeq(currentLabels, k + 1, Len(currentLabels))

\* C24: removing the record of a card by its id removes that one record and
\* leaves every other record in the list, unchanged and in the same order.
C24_RemovesExactlyOne ==
    [][\A k \in 1..Len(labels) :
          handleRemoveLabel(labels[k].id) => labels' = WithoutRecord(labels, k)]_vars

-----------------------------------------------------------------------------
(* C25 *)

\* The cell at position pos of a row, empty when the row is shorter.
CellAt(cells, pos) == IF pos <= Len(cells) THEN cells[pos] ELSE <<>>

\* Record l carries the fields that its data row has under the three
\* headers of the text as pasted: the row is the one its id numbers, the
\* positions are those of the headers in the first non-blank line. A
\* quantity field without a number counts as 0.
AtHeaderPositions(value, l) ==
    LET rows == NonBlankLines(value)
        head == Cells(rows[1])
        cells == Cells(rows[l.id[3] + 2])
        qty == parseInt(CellAt(cells, Position(head, QTY_HEADER)))
    IN  /\ l.code = CellAt(cells, Position(head, CODE_HEADER))
        /\ l.description = WithoutZeroWidth(CellAt(cells, Position(head, DESC_HEADER)))
        /\ l.quantity = IF qty.nan THEN IntegerNumber(0) ELSE qty

\* C25: every record a parse adds carries the code, the description and the
\* quantity that its data row has at the positions of the three headers in
\* the header line as pasted, leading empty header cells and trailing empty
\* cells of the last row included.
C25_FieldsAtHeaderPositions ==
    [][\A value \in PasteTexts :
          ((handleProcessData(value) \/ handleProcessDataStrict(value))
              /\ success' = Processed) =>
              \A k \in (Len(labels) + 1)..Len(labels') :
                  AtHeaderPositions(value, labels'[k])]_vars

-----------------------------------------------------------------------------
(* C26 *)

RECURSIVE SumOf(_)
SumOf(numbers) == IF Len(numbers) = 0 THEN 0 ELSE Head(numbers) + SumOf(Tail(numbers))

\* The numbers of the quantity directives of a file, in their order: each
\* the decimal written, none of them negative.
Directives(said) ==
    Concat([n \in 1..Len(said) |->
               [k \in 1..Len(said[n].copies) |->
                   Decimal(NaturalDigits(said[n].copies[k]), said[n].fractions[k])]])

\* The exact sum of the decimals from position k on, added to sum.
RECURSIVE DecimalSum(_, _, _)
DecimalSum(decimals, k, sum) ==
    IF k > Len(decimals) THEN sum
    ELSE The({DecimalSum(decimals, k + 1, next) :
                 next \in {AddDecimal(sum, decimals[k])}})

\* The sum of the quantity directives of a file.
DirectivesTotal(said) == DecimalSum(Directives(said), 1, Decimal(<<>>, <<>>))

\* C26: the quantity directives of a generated file add up to the sum of
\* the quantities of the records of the list, the total on the download
\* button.
C26_TotalPrinted ==
    HasFile =>
        LET total == totalLabelsToPrint(labels)
        IN  /\ ~total.neg
            /\ DirectivesTotal(FileSays) = [int |-> total.int, frac |-> total.frac]

-----------------------------------------------------------------------------
(* C27 *)

\* How many commands each block of the file of a list has, by the quantity
\* policy and the layout of the build.
BlockSizes(currentLabels, b) ==
    Concat([k \in 1..Len(currentLabels) |->
        LET l == currentLabels[k]
        IN  IF b = "lenient"
            THEN IF Positive(l.quantity) THEN <<6>> ELSE <<>>
            ELSE IF b = "strict"
            THEN IF NumberLess(IntegerNumber(1), l.quantity) THEN <<12, 6>>
                 ELSE IF l.quantity = IntegerNumber(1) THEN <<12>>
                 ELSE <<>>
            ELSE <<12>>])

\* How often a marker stands in a text.
Occurrences(str, token) == Cardinality(PositionsOf(str, token))

\* C27: the markers of a generated file are those of its commands and no
\* others: every start marker begins a command and every end marker ends
\* one, so that there are as many of each as the header and the blocks have
\* commands, and the unit separator, the end-of-block and the cancel marker
\* stand once in each block; codes and descriptions bring in none.
C27_MarkersFrameCommands ==
    HasFile =>
        LET sizes == BlockSizes(labels, build)
            commands == Occurrences(HeaderSection(build), Ctl(build).stx) + SumOf(sizes)
        IN  /\ WellFormed(document, build)
            /\ Occurrences(document, Ctl(build).stx) = commands
            /\ Occurrences(document, Ctl(build).etx) = commands
            /\ Occurrences(document, Ctl(build).us) = Len(sizes)
            /\ Occurrences(document, Ctl(build).etb) = Len(sizes)
            /\ Occurrences(document, Ctl(build).can) = Len(sizes)

-----------------------------------------------------------------------------
(* C28 *)

\* C28: whatever the user has done, the error message and the success
\* message are never both set.
C28_NotBothMessages == ~(error # NULL /\ success # NULL)

\* A parse has reported an error while the list holds a record of an
\* earlier, successful parse, whose success message is no longer set.
C28_Witness ==
    /\ error # NULL
    /\ success = NULL
    /\ Len(labels) > 0
    /\ IsParsed(labels[1])

====
